---- MODULE Spec2Model ----
(***************************************************************************)
(* A model of the resume/job-description matching service:                *)
(*   - the accept / reject / refine / edit control loop of app.py and the *)
(*     edit applicator apply_suggestion_to_resume          (Spec)         *)
(*   - resume and job-description extraction with its model-assisted and  *)
(*     rule-based strategies                                (SpecExtract) *)
(*   - the suggestion validator and generator               (SpecSuggest) *)
(*   - the suggestion engine and its prompts                (SpecEngine)  *)
(*   - the ATS and semantic-fit scorers                     (SpecScore)   *)
(*   - sessions and their scores                            (SpecSession) *)
(*   - requests whose reads and commits interleave          (SpecRace)    *)
(*   - the resume table and its default row                 (SpecUpload)  *)
(*   - the applicators of accept and of the export          (SpecApply)   *)
(*                                                                         *)
(* Texts are sequences of one-character strings, so that trimming,        *)
(* lower-casing, splitting and truncation are computed, not assumed.      *)
(* A section_id is a sequence of tokens in which "_" is the separator     *)
(* character and every other token stands for a run of characters that    *)
(* holds no "_" (a word, a sign, one digit); SpecApply writes them out    *)
(* character by character.                                                 *)
(***************************************************************************)
EXTENDS Integers, Sequences, FiniteSets, TLC

VARIABLES
    db_resume,        \* Resume.parsed_data of the stored resume row
    db_suggestions,   \* the rows of table suggestions, by id (position)
    ops,              \* history: the kinds of request committed so far
    last,             \* the HTTP status of the last request answered (0: none yet)
    ext,              \* the last extraction run (resume or JD parser)
    gen,              \* the last observed call of a suggestion engine
    db_sessions,      \* the rows of table sessions, by id (position)
    db_resume_rows,   \* the rows of table resumes: id and is_default
    requests          \* the request handlers in flight and what they hold

vars == <<db_resume, db_suggestions, ops, last, ext, gen, db_sessions, db_resume_rows, requests>>

\* the variables of the session table, the resumes table and the handlers in
\* flight
tables == <<db_sessions, db_resume_rows, requests>>

\* Python's None where a text is expected: a value no text of the model equals
None == <<"None">>

----------------------------------------------------------------------------
(* Python string and list primitives                                       *)

Min(a, b) == IF a < b THEN a ELSE b

\* s[:n]
Take(s, n) == SubSeq(s, 1, Min(n, Len(s)))

\* [c] * n
Rep(c, n) == [i \in 1..n |-> c]

\* str.lower() on the alphabet of the model
LowerChar(c) ==
    CASE c = "A" -> "a"
      [] c = "B" -> "b"
      [] c = "C" -> "c"
      [] OTHER -> c

lower(s) == [i \in 1..Len(s) |-> LowerChar(s[i])]

IsSpace(c) == c = " "

RECURSIVE lstrip(_)
lstrip(s) ==
    IF s = <<>> THEN <<>>
    ELSE IF IsSpace(Head(s)) THEN lstrip(Tail(s))
    ELSE s

RECURSIVE rstrip(_)
rstrip(s) ==
    IF s = <<>> THEN <<>>
    ELSE IF IsSpace(s[Len(s)]) THEN rstrip(SubSeq(s, 1, Len(s) - 1))
    ELSE s

\* str.strip()
strip(s) == rstrip(lstrip(s))

\* str.split / re.split on a set of one-character separators: always at
\* least one part, empty parts are kept
RECURSIVE SplitFrom(_, _, _, _)
SplitFrom(s, seps, i, cur) ==
    IF i > Len(s) THEN <<cur>>
    ELSE IF s[i] \in seps THEN <<cur>> \o SplitFrom(s, seps, i + 1, <<>>)
    ELSE SplitFrom(s, seps, i + 1, Append(cur, s[i]))

split(s, sep) == SplitFrom(s, {sep}, 1, <<>>)

\* sub in s
Contains(sub, s) ==
    \E i \in 0..(Len(s) - Len(sub)) : SubSeq(s, i + 1, i + Len(sub)) = sub

\* s.startswith(p)
StartsWith(s, p) == Len(p) <= Len(s) /\ SubSeq(s, 1, Len(p)) = p

\* the lists over S of at most n items
SeqsUpTo(S, n) == UNION {[1..k -> S] : k \in 0..n}

\* x in list
InList(x, l) == \E i \in 1..Len(l) : l[i] = x

\* Python truthiness of an Optional[str]
Truthy(s) == s # None /\ s # <<>>

\* list[i] with Python's negative indexing: the 1-based position, or 0 for
\* an IndexError
PyIndex(l, i) ==
    IF 0 <= i /\ i < Len(l) THEN i + 1
    ELSE IF i < 0 /\ -i <= Len(l) THEN Len(l) + i + 1
    ELSE 0

\* int(part) of a section_id part: an optional sign and decimal digits;
\* anything else is a ValueError
Digits == {"0", "1", "2", "3", "4", "5", "6", "7", "8", "9"}

DigitVal(d) ==
    CASE d = "0" -> 0 [] d = "1" -> 1 [] d = "2" -> 2 [] d = "3" -> 3
      [] d = "4" -> 4 [] d = "5" -> 5 [] d = "6" -> 6 [] d = "7" -> 7
      [] d = "8" -> 8 [] d = "9" -> 9

RECURSIVE DigitsVal(_)
DigitsVal(p) ==
    IF p = <<>> THEN 0
    ELSE 10 * DigitsVal(SubSeq(p, 1, Len(p) - 1)) + DigitVal(p[Len(p)])

AllDigits(p) == p # <<>> /\ \A i \in 1..Len(p) : p[i] \in Digits

IsInt(p) ==
    \/ AllDigits(p)
    \/ p # <<>> /\ Head(p) \in {"-", "+"} /\ AllDigits(Tail(p))

int(p) ==
    IF Head(p) = "-" THEN 0 - DigitsVal(Tail(p))
    ELSE IF Head(p) = "+" THEN DigitsVal(Tail(p))
    ELSE DigitsVal(p)

----------------------------------------------------------------------------
(* schemas.ResumeData and the edit applicator                              *)

\* BulletPoint(text=t)
BulletPoint(t) == [text |-> t, formatting |-> None]

\* exp.bullets[bpos].text = new_text on experience entry epos
SetBulletText(resume, epos, bpos, new_text) ==
    [resume EXCEPT !.experience[epos].bullets[bpos].text = new_text]

\* for skill in skills_to_add: if skill and skill not in resume_data.skills
RECURSIVE AppendSkills(_, _)
AppendSkills(skills, to_add) ==
    IF to_add = <<>> THEN skills
    ELSE LET skill == Head(to_add) IN
         IF skill # <<>> /\ ~InList(skill, skills)
         THEN AppendSkills(Append(skills, skill), Tail(to_add))
         ELSE AppendSkills(skills, Tail(to_add))

\* [s.strip() for s in new_text.split(',')]
SkillsToAdd(new_text) ==
    LET parts == split(new_text, ",")
    IN  [i \in 1..Len(parts) |-> strip(parts[i])]

\* the bullet branch: parts = section_id.split('_'), the two int() calls and
\* the two upper-bound tests; ValueError and IndexError are swallowed
ApplyBullet(resume, section_id, new_text) ==
    LET parts == split(section_id, "_") IN
    IF Len(parts) < 4 THEN resume
    ELSE IF ~IsInt(parts[2]) \/ ~IsInt(parts[4]) THEN resume
    ELSE LET exp_idx == int(parts[2])
             bullet_idx == int(parts[4])
         IN  IF ~(exp_idx < Len(resume.experience)) THEN resume
             ELSE LET epos == PyIndex(resume.experience, exp_idx) IN
                  IF epos = 0 THEN resume
                  ELSE LET bullets == resume.experience[epos].bullets IN
                       IF ~(bullet_idx < Len(bullets)) THEN resume
                       ELSE LET bpos == PyIndex(bullets, bullet_idx) IN
                            IF bpos = 0 THEN resume
                            ELSE SetBulletText(resume, epos, bpos, new_text)

\* apply_suggestion_to_resume(resume_data, suggestion, edited_text)
apply_suggestion_to_resume(resume, suggestion, edited_text) ==
    LET new_text == IF Truthy(edited_text) THEN edited_text
                    ELSE suggestion.suggested_text
    IN  IF suggestion.section_type = "summary"
        THEN [resume EXCEPT !.summary = new_text]
        ELSE IF suggestion.section_type = "skill"
        THEN [resume EXCEPT !.skills = AppendSkills(@, SkillsToAdd(new_text))]
        ELSE IF suggestion.section_type = "bullet" /\ Truthy(suggestion.section_id)
        THEN ApplyBullet(resume, suggestion.section_id, new_text)
        ELSE resume

----------------------------------------------------------------------------
(* config.generate_chat_completion: the text-generation collaborator       *)

\* What one call of the hosted model does.  kind:
\*   "api_error"   the client raises (connectivity, authentication, rate limit)
\*   "empty"       no choices, or empty content
\*   "error_text"  content that starts with Error: / Internal / Failed / Exception
\*   "garbage"     content that is not JSON
\*   "json_list"   content that is a JSON array, not an object
\*   "json_bad"    a JSON object whose values do not fit the schema
\*   "json_ok"     a JSON object that conforms to the requested schema
\* fenced: the content is wrapped in a Markdown code fence
ReplyKinds ==
    {"api_error", "empty", "error_text", "garbage", "json_list", "json_bad", "json_ok"}

\* generate_chat_completion returns the content, a str, or raises ValueError
\* ("API call failed: ...") for every failure, empty content included
generate_chat_completion(reply) ==
    IF reply.kind \in {"api_error", "empty", "error_text"}
    THEN [raised |-> TRUE, type |-> "none", content |-> reply]
    ELSE [raised |-> FALSE, type |-> "str", content |-> reply]

----------------------------------------------------------------------------
(* parsers.resume_parser.ResumeParser                                      *)

\* A document is the text pdfplumber / python-docx yields, given by what the
\* fixed regular expressions of the parser find in it:
\*   blank      no extractable text at all
\*   name       the first header line when it passes the name test, else None
\*   email      the first match of the e-mail pattern, else None
\*   summary    the body of the summary section, else None
\*   entries    the experience section cut at its date headers: each entry
\*              is its sequence of lines
\*   education  the lines of the education section
\*   skills     the lines of the skills section
\*   certs      the lines of the certifications section

BulletMarkers == {"*", "-", "~"}    \* "~" stands for the bullet character

\* re.sub(r'^[bullet\-\*]\s*', '', line).strip()
StripMarker(line) ==
    IF line # <<>> /\ Head(line) \in BulletMarkers THEN strip(Tail(line))
    ELSE strip(line)

MinBulletLen == 5
MinSkillLen == 1
MaxSkillLen == 50
MinCertLen == 3
MaxCertLen == 150
MinEducationLen == 5

\* _extract_personal_info: only name and email decide anything downstream
_extract_personal_info(doc) ==
    [name |-> doc.name, email |-> doc.email, phone |-> None,
     location |-> None, linkedin |-> None]

\* the bullets of one entry: marker lines, marker removed, longer than 5
RECURSIVE EntryBullets(_)
EntryBullets(lines) ==
    IF lines = <<>> THEN <<>>
    ELSE LET line == Head(lines)
             bullet_text == StripMarker(line)
         IN  IF Head(line) \in BulletMarkers /\ Len(bullet_text) > MinBulletLen
             THEN <<BulletPoint(bullet_text)>> \o EntryBullets(Tail(lines))
             ELSE EntryBullets(Tail(lines))

\* lines = [l.strip() for l in entry_text.split('\n') if l.strip()]
RECURSIVE NonBlankLines(_)
NonBlankLines(lines) ==
    IF lines = <<>> THEN <<>>
    ELSE IF strip(Head(lines)) = <<>> THEN NonBlankLines(Tail(lines))
    ELSE <<strip(Head(lines))>> \o NonBlankLines(Tail(lines))

\* one experience entry, or <<>> when it has no bullets
ParseEntry(entry_lines) ==
    LET lines == NonBlankLines(entry_lines) IN
    IF lines = <<>> THEN <<>>
    ELSE LET first_line == lines[1]
             second_is_text == Len(lines) > 1 /\ ~(Head(lines[2]) \in {"~", "-"})
             bullets == EntryBullets(lines)
         IN  IF bullets = <<>> THEN <<>>
             ELSE <<[company |-> IF second_is_text THEN lines[2] ELSE first_line,
                     title |-> first_line,
                     location |-> None, start_date |-> None, end_date |-> None,
                     bullets |-> bullets]>>

\* _extract_experience
RECURSIVE _extract_experience(_)
_extract_experience(entries) ==
    IF entries = <<>> THEN <<>>
    ELSE ParseEntry(Head(entries)) \o _extract_experience(Tail(entries))

\* any(kw.lower() in line.lower() for kw in degree_keywords): of the
\* keywords only BA can be spelled in the alphabet of the model
HasDegree(line) == Contains(<<"b", "a">>, lower(line))

\* _extract_education
RECURSIVE _extract_education(_)
_extract_education(lines) ==
    IF lines = <<>> THEN <<>>
    ELSE LET line == StripMarker(strip(Head(lines)))
             parts0 == split(line, ",")
             parts == [i \in 1..Len(parts0) |-> strip(parts0[i])]
             institution == IF Len(parts) > 1 THEN parts[Len(parts)] ELSE <<>>
         IN  IF \/ Len(line) < MinEducationLen
                \/ ~HasDegree(line)
                \/ (institution = <<>> /\ parts[1] = <<>>)
             THEN _extract_education(Tail(lines))
             ELSE <<[institution |-> IF institution = <<>> THEN <<"Unknown">>
                                     ELSE institution,
                     degree |-> parts[1], field |-> None, location |-> None,
                     graduation_date |-> None]>>
                  \o _extract_education(Tail(lines))

\* the items of one skills line: re.split(r'[,;]', line), stripped, kept when
\* 1 < len < 50; every kept item is appended, seen before or not
RECURSIVE LineSkills(_)
LineSkills(items) ==
    IF items = <<>> THEN <<>>
    ELSE LET skill == strip(Head(items)) IN
         IF Len(skill) > MinSkillLen /\ Len(skill) < MaxSkillLen
         THEN <<skill>> \o LineSkills(Tail(items))
         ELSE LineSkills(Tail(items))

\* _extract_skills
RECURSIVE _extract_skills(_)
_extract_skills(lines) ==
    IF lines = <<>> THEN <<>>
    ELSE LET line == StripMarker(strip(Head(lines))) IN
         IF strip(Head(lines)) = <<>> THEN _extract_skills(Tail(lines))
         ELSE LineSkills(SplitFrom(line, {",", ";"}, 1, <<>>))
              \o _extract_skills(Tail(lines))

\* _extract_certifications
RECURSIVE _extract_certifications(_)
_extract_certifications(lines) ==
    IF lines = <<>> THEN <<>>
    ELSE LET line == StripMarker(strip(Head(lines))) IN
         IF Len(line) > MinCertLen /\ Len(line) < MaxCertLen
         THEN <<line>> \o _extract_certifications(Tail(lines))
         ELSE _extract_certifications(Tail(lines))

\* [c for c in certifications if c not in skills]
RECURSIVE NotIn(_, _)
NotIn(items, skills) ==
    IF items = <<>> THEN <<>>
    ELSE IF InList(Head(items), skills) THEN NotIn(Tail(items), skills)
    ELSE <<Head(items)>> \o NotIn(Tail(items), skills)

Ok(data) == [ok |-> TRUE, data |-> data, error |-> "none"]
Err(e) == [ok |-> FALSE, data |-> <<>>, error |-> e]

\* a parser without the minimal-content test: the sensitivity check of
\* NoEmptyResumeReturned
MeaningfulContent_absent(personal_info, experience, education) == TRUE

\* the minimal-content test of _parse_text
MeaningfulContent(personal_info, experience, education) ==
    ~(~Truthy(personal_info.name) /\ ~Truthy(personal_info.email)
      /\ Len(experience) = 0 /\ Len(education) = 0)

\* _parse_text: the rule-based strategy
_parse_text(doc) ==
    IF doc.blank THEN Err("Resume text is empty.")
    ELSE LET personal_info == _extract_personal_info(doc)
             experience == _extract_experience(doc.entries)
             education == _extract_education(doc.education)
             skills == _extract_skills(doc.skills)
             certifications == _extract_certifications(doc.certs)
             all_skills == skills \o NotIn(certifications, skills)
         IN  IF ~MeaningfulContent(personal_info, experience, education)
             THEN Err("Could not extract meaningful content from resume.")
             ELSE Ok([personal_info |-> personal_info,
                      summary |-> doc.summary,
                      experience |-> experience,
                      education |-> education,
                      skills |-> all_skills,
                      formatting_map |-> None])

\* the bullets the model-assisted strategy keeps of one reply entry
RECURSIVE LlmBullets(_)
LlmBullets(bullets) ==
    IF bullets = <<>> THEN <<>>
    ELSE IF strip(Head(bullets)) = <<>> THEN LlmBullets(Tail(bullets))
    ELSE <<BulletPoint(strip(Head(bullets)))>> \o LlmBullets(Tail(bullets))

\* for exp in data.get('experience', []): entries without bullets are dropped
RECURSIVE LlmExperience(_)
LlmExperience(entries) ==
    IF entries = <<>> THEN <<>>
    ELSE LET bullets == LlmBullets(Head(entries)) IN
         (IF bullets = <<>> THEN <<>>
          ELSE <<[company |-> <<"Unknown">>, title |-> <<"Unknown">>,
                  location |-> None, start_date |-> None, end_date |-> None,
                  bullets |-> bullets]>>)
         \o LlmExperience(Tail(entries))

\* the skills loop of _parse_with_llm: items split at commas, each sub-item
\* appended unless an equal string is already there
RECURSIVE LlmSkills(_, _)
LlmSkills(skills, raw_skills) ==
    IF raw_skills = <<>> THEN skills
    ELSE LET item_clean == strip(Head(raw_skills)) IN
         IF item_clean = <<>> THEN LlmSkills(skills, Tail(raw_skills))
         ELSE LlmSkills(AppendSkills(skills, SkillsToAdd(item_clean)),
                        Tail(raw_skills))

\* the ResumeData built from the parsed reply
ResumeFromJson(data) ==
    [personal_info |-> [name |-> data.name, email |-> data.email,
                        phone |-> None, location |-> None, linkedin |-> None],
     summary |-> data.summary,
     experience |-> LlmExperience(data.experience),
     education |-> data.education,
     skills |-> LlmSkills(<<>>, data.skills),
     formatting_map |-> None]

Unavailable == [produced |-> FALSE, data |-> <<>>]

\* _parse_with_llm.  generate_chat_completion returns the content as a str
\* (or raises), and the parser reads response.choices[0].message.content of
\* what it returns: on a str that is an AttributeError, which the except
\* clause of _parse_with_llm turns into None like every other failure.
_parse_with_llm(doc, reply) ==
    LET response == generate_chat_completion(reply) IN
    IF response.raised THEN Unavailable
    ELSE IF response.type = "str" THEN Unavailable
    ELSE IF reply.kind # "json_ok" THEN Unavailable
    ELSE [produced |-> TRUE, data |-> ResumeFromJson(reply.data)]

\* _parse_pdf / _parse_docx: the model-assisted strategy first, the
\* rule-based strategy when it yields nothing
_parse_pdf(doc, reply) ==
    IF doc.blank THEN Err("PDF file appears to be empty")
    ELSE LET resume_data == _parse_with_llm(doc, reply) IN
         IF resume_data.produced THEN Ok(resume_data.data)
         ELSE _parse_text(doc)

----------------------------------------------------------------------------
(* parsers.jd_parser.JobDescriptionParser                                  *)

\* A job-description text is given by: blank (nothing but white space), text
\* (the source itself) and title (the line the title heuristics of the
\* rule-based strategy settle on, None when they find none).

JobPosition == <<"Job Position">>

JobDescription(role_title, raw_text) ==
    [role_title |-> role_title, raw_text |-> raw_text]

NoJD == [produced |-> FALSE, jd |-> <<>>]

\* response_text.strip() and the removal of a leading ```json / ``` and a
\* trailing ```: what is left is the body of the reply
CleanFences(reply) == [reply EXCEPT !.fenced = FALSE]

\* json.loads(response_text) and the construction of JobDescription: TRUE
\* when both succeed.  JSONDecodeError, a reply that is no object
\* (AttributeError on data.get) and a pydantic ValidationError all end in
\* return None.
JsonBuilds(reply) == ~reply.fenced /\ reply.kind = "json_ok"

\* _parse_text_with_llm
_parse_text_with_llm(text, reply) ==
    LET response == generate_chat_completion(reply) IN
    IF response.raised THEN NoJD
    ELSE LET cleaned == CleanFences(response.content) IN
         IF ~JsonBuilds(cleaned) THEN NoJD
         ELSE [produced |-> TRUE,
               jd |-> JobDescription(
                        IF Truthy(cleaned.data.role_title)
                        THEN cleaned.data.role_title ELSE JobPosition,
                        text.text)]

\* the rule-based strategy of JobDescriptionParser._parse_text (from line 257)
jd_parse_regex(text) ==
    JobDescription(IF Truthy(text.title) THEN text.title ELSE JobPosition,
                   text.text)

\* a caller that lets the failure of the model-assisted strategy through:
\* the sensitivity check of CollaboratorFailureFallsBack
jd_parse_text_nofallback(text, reply) ==
    IF text.blank THEN Err("Job description text is empty")
    ELSE LET llm_result == _parse_text_with_llm(text, reply) IN
         IF llm_result.produced THEN Ok(llm_result.jd)
         ELSE Err("API call failed")

\* JobDescriptionParser._parse_text(text): use_llm is True
jd_parse_text(text, reply) ==
    IF text.blank THEN Err("Job description text is empty")
    ELSE LET llm_result == _parse_text_with_llm(text, reply) IN
         IF llm_result.produced THEN Ok(llm_result.jd)
         ELSE Ok(jd_parse_regex(text))

----------------------------------------------------------------------------
(* suggestions.simple_suggestion_engine.SimpleSuggestionEngine             *)

\* One element of the "suggestions" array of the reply:
\*   is_dict   FALSE for an element that is no JSON object
\*   builds    FALSE when float(expected_score_delta) or the construction of
\*             the Suggestion raises
\*   priority  the value of the key, None when the key is absent
\* The id of a Suggestion is a fresh uuid4: the position of the element in
\* the reply stands for it.

MaxTextLen == 500
DedupPrefixLen == 100
Ellipsis == <<".", ".", ".">>

\* if len(text) > 500: text = text[:500] + "..."
LimitLength(text) ==
    IF Len(text) > MaxTextLen THEN Take(text, MaxTextLen) \o Ellipsis ELSE text

\* the loop of _process_suggestions from element i on; suggestions and
\* seen_originals are the locals of the method
RECURSIVE ProcessFrom(_, _, _, _)
ProcessFrom(suggestions_list, i, suggestions, seen_originals) ==
    IF i > Len(suggestions_list) THEN suggestions
    ELSE LET sug_data == suggestions_list[i]
             original == strip(sug_data.original_text)
             suggested == strip(sug_data.suggested_text)
             original_normalized == Take(strip(lower(original)), DedupPrefixLen)
         IN  IF ~sug_data.is_dict
             THEN ProcessFrom(suggestions_list, i + 1, suggestions, seen_originals)
             ELSE IF original = <<>> \/ suggested = <<>> \/ original = suggested
             THEN ProcessFrom(suggestions_list, i + 1, suggestions, seen_originals)
             ELSE IF original_normalized \in seen_originals
             THEN ProcessFrom(suggestions_list, i + 1, suggestions, seen_originals)
             ELSE IF ~sug_data.builds
             THEN ProcessFrom(suggestions_list, i + 1, suggestions,
                              seen_originals \cup {original_normalized})
             ELSE ProcessFrom(suggestions_list, i + 1,
                    Append(suggestions,
                           [id |-> i,
                            section_type |-> sug_data.section_type,
                            section_id |-> sug_data.section_id,
                            original_text |-> LimitLength(original),
                            suggested_text |-> LimitLength(suggested),
                            reason |-> sug_data.reason,
                            jd_mapping |-> sug_data.jd_mapping,
                            category |-> IF sug_data.category = None
                                         THEN <<"experience">> ELSE sug_data.category,
                            expected_score_delta |-> sug_data.expected_score_delta,
                            priority |-> IF sug_data.priority = None
                                         THEN <<"medium">> ELSE sug_data.priority]),
                    seen_originals \cup {original_normalized})

\* _process_suggestions
_process_suggestions(suggestions_list) == ProcessFrom(suggestions_list, 1, <<>>, {})

\* a sort key that ignores the priority: the sensitivity check of
\* ReturnsFirstByPriorityThenDelta
priority_order_flat(priority) == 1

\* priority_order.get(priority, 1) with {'high': 0, 'medium': 1, 'low': 2}
priority_order(priority) ==
    IF priority = <<"high">> THEN 0
    ELSE IF priority = <<"low">> THEN 2
    ELSE 1

\* the tuple comparison of the sort key (rank, -expected_score_delta)
KeyLess(a, b) ==
    \/ priority_order(a.priority) < priority_order(b.priority)
    \/ /\ priority_order(a.priority) = priority_order(b.priority)
       /\ (0 - a.expected_score_delta) < (0 - b.expected_score_delta)

\* list.sort(key=...) is stable: an element goes behind every element whose
\* key is not greater than its own
RECURSIVE InsertSorted(_, _)
InsertSorted(sorted, x) ==
    IF sorted = <<>> THEN <<x>>
    ELSE IF KeyLess(x, Head(sorted)) THEN <<x>> \o sorted
    ELSE <<Head(sorted)>> \o InsertSorted(Tail(sorted), x)

RECURSIVE SortByKey(_, _)
SortByKey(suggestions, sorted) ==
    IF suggestions = <<>> THEN sorted
    ELSE SortByKey(Tail(suggestions), InsertSorted(sorted, Head(suggestions)))

\* suggestions[:max_suggestions]
Slice(l, n) ==
    IF n >= 0 THEN Take(l, n)
    ELSE Take(l, IF Len(l) + n > 0 THEN Len(l) + n ELSE 0)

NoSuggestions == [summary |-> None, suggestions |-> <<>>]

\* _parse_response: the fence is cut off and json.loads applied; text that is
\* not JSON and holds no {...} yields None
ParsesAsJson(reply) == reply.kind \in {"json_list", "json_bad", "json_ok"}

\* SimpleSuggestionEngine.generate_suggestions.  A reply that is a JSON array
\* has no .get, and one whose elements do not fit raises in
\* _process_suggestions: both end in the except clause.
generate_suggestions(reply, max_suggestions) ==
    LET response == generate_chat_completion(reply) IN
    IF response.raised THEN NoSuggestions
    ELSE IF ~ParsesAsJson(reply) THEN NoSuggestions
    ELSE IF reply.kind # "json_ok" THEN NoSuggestions
    ELSE [summary |-> reply.data.summary,
          suggestions |->
              Slice(SortByKey(_process_suggestions(reply.data.suggestions), <<>>),
                    max_suggestions)]

NotRefined == [produced |-> FALSE, suggested_text |-> None, reason |-> None]

\* a refinement that falls back to the default category instead of carrying
\* the original's over: the sensitivity check of RefinementFailsOrKeepsFields
refine_suggestion_recategorised(original_suggestion, reply) ==
    IF generate_chat_completion(reply).raised \/ reply.kind # "json_ok"
    THEN NotRefined
    ELSE [original_suggestion EXCEPT
             !.id = <<"uuid4">>,
             !.category = <<"experience">>,
             !.suggested_text = IF reply.data.suggested_text = None
                                THEN @ ELSE reply.data.suggested_text,
             !.reason = IF reply.data.reason = None THEN @ ELSE reply.data.reason]
         @@ [produced |-> TRUE]

\* SimpleSuggestionEngine.refine_suggestion: data.get('suggested_text',
\* original_suggestion.suggested_text), the same for reason; every failure,
\* an empty object included, is None
refine_suggestion(original_suggestion, reply) ==
    LET response == generate_chat_completion(reply) IN
    IF response.raised THEN NotRefined
    ELSE IF reply.kind # "json_ok" THEN NotRefined
    ELSE [produced |-> TRUE,
          id |-> <<"uuid4">>,
          section_type |-> original_suggestion.section_type,
          section_id |-> original_suggestion.section_id,
          original_text |-> original_suggestion.original_text,
          suggested_text |-> IF reply.data.suggested_text = None
                             THEN original_suggestion.suggested_text
                             ELSE reply.data.suggested_text,
          reason |-> IF reply.data.reason = None
                     THEN original_suggestion.reason
                     ELSE reply.data.reason,
          expected_score_delta |-> original_suggestion.expected_score_delta,
          jd_mapping |-> original_suggestion.jd_mapping,
          category |-> original_suggestion.category,
          priority |-> original_suggestion.priority]

----------------------------------------------------------------------------
(* suggestions.suggestion_engine.SuggestionEngine                          *)

\* all_suggestions.sort(key=lambda x: x.expected_score_delta, reverse=True):
\* stable, so an element goes behind every element whose delta is not smaller
RECURSIVE InsertByDelta(_, _)
InsertByDelta(sorted, x) ==
    IF sorted = <<>> THEN <<x>>
    ELSE IF x.expected_score_delta > Head(sorted).expected_score_delta
    THEN <<x>> \o sorted
    ELSE <<Head(sorted)>> \o InsertByDelta(Tail(sorted), x)

RECURSIVE SortByDelta(_, _)
SortByDelta(suggestions, sorted) ==
    IF suggestions = <<>> THEN sorted
    ELSE SortByDelta(Tail(suggestions), InsertByDelta(sorted, Head(suggestions)))

\* str(n) for n >= 0
RECURSIVE Str(_)
Str(n) ==
    LET digit == <<"0", "1", "2", "3", "4", "5", "6", "7", "8", "9">> IN
    IF n < 10 THEN <<digit[n + 1]>>
    ELSE Str(n \div 10) \o <<digit[(n % 10) + 1]>>

\* ', '.join(items)
RECURSIVE Join(_)
Join(items) ==
    IF items = <<>> THEN <<>>
    ELSE IF Len(items) = 1 THEN items[1]
    ELSE items[1] \o <<",", " ">> \o Join(Tail(items))

MaxDisplayed == 10
RequiredCap == 2
PreferredCap == 1
RequiredDelta == 5
PreferredDelta == 2

\* ', '.join(skills[:10]), followed by ", ... (n more)" when there are more
SkillsDisplay(skills) ==
    IF Len(skills) > MaxDisplayed
    THEN Join(Take(skills, MaxDisplayed))
         \o <<",", " ", ".", ".", ".", " ", "(">> \o Str(Len(skills) - MaxDisplayed)
         \o <<" ", "m", "o", "r", "e", ")">>
    ELSE Join(skills)

\* the inner loop over resume_skills_lower: exact match, or one contains the
\* other
FoundIn(jd_skill, resume_skills) ==
    LET jd_skill_lower == strip(lower(jd_skill)) IN
    \E k \in 1..Len(resume_skills) :
        LET resume_skill == strip(lower(resume_skills[k])) IN
        \/ jd_skill_lower = resume_skill
        \/ Contains(jd_skill_lower, resume_skill)
        \/ Contains(resume_skill, jd_skill_lower)

\* missing_required / missing_preferred
RECURSIVE MissingSkills(_, _)
MissingSkills(jd_skills, resume_skills) ==
    IF jd_skills = <<>> THEN <<>>
    ELSE (IF FoundIn(Head(jd_skills), resume_skills) THEN <<>>
          ELSE <<Head(jd_skills)>>)
         \o MissingSkills(Tail(jd_skills), resume_skills)

\* the Suggestion built for one missing skill
SkillSuggestion(resume_skills, skill, delta, label) ==
    [section_type |-> "skill",
     section_id |-> <<"skills", "_", "section">>,
     original_text |-> SkillsDisplay(resume_skills),
     suggested_text |-> SkillsDisplay(Append(resume_skills, skill)),
     reason |-> <<"Add ", label>> \o skill,
     jd_mapping |-> <<label>> \o skill,
     expected_score_delta |-> delta,
     category |-> None,
     priority |-> None]

\* SuggestionEngine._suggest_skill_additions
_suggest_skill_additions(resume_skills, required_skills, preferred_skills) ==
    IF resume_skills = <<>> THEN <<>>
    ELSE LET missing_required == MissingSkills(required_skills, resume_skills)
             missing_preferred == MissingSkills(preferred_skills, resume_skills)
             top_required == Take(missing_required, RequiredCap)
             top_preferred == Take(missing_preferred, PreferredCap)
         IN  [i \in 1..Len(top_required) |->
                 SkillSuggestion(resume_skills, top_required[i], RequiredDelta,
                                 "Required skill: ")]
             \o [i \in 1..Len(top_preferred) |->
                 SkillSuggestion(resume_skills, top_preferred[i], PreferredDelta,
                                 "Preferred skill: ")]

LowerLetters ==
    <<"a", "b", "c", "d", "e", "f", "g", "h", "i", "j", "k", "l", "m",
      "n", "o", "p", "q", "r", "s", "t", "u", "v", "w", "x", "y", "z">>
UpperLetters ==
    <<"A", "B", "C", "D", "E", "F", "G", "H", "I", "J", "K", "L", "M",
      "N", "O", "P", "Q", "R", "S", "T", "U", "V", "W", "X", "Y", "Z">>

IsLetter(c) == InList(c, LowerLetters) \/ InList(c, UpperLetters)

\* str.upper()
UpperChar(c) ==
    IF InList(c, LowerLetters)
    THEN UpperLetters[CHOOSE i \in 1..26 : LowerLetters[i] = c]
    ELSE c

upper(s) == [i \in 1..Len(s) |-> UpperChar(s[i])]

Newline == "\n"

IsWhite(c) == c \in {" ", Newline, "\t"}

\* max_length: 500 for a summary, 300 for skills, 200 for a bullet
SummaryMaxLen == 500
SkillMaxLen == 300
BulletMaxLen == 200

MaxLengthOf(section_type) ==
    IF section_type = "summary" THEN SummaryMaxLen
    ELSE IF section_type = "skill" THEN SkillMaxLen
    ELSE BulletMaxLen

\* where (?:\n\n|\n[A-Z]{2,}|$) matches under re.IGNORECASE, at position p
\* (the first character not yet consumed)
SectionEndsAt(text, p) ==
    \/ p > Len(text)
    \/ p = Len(text) /\ text[p] = Newline
    \/ p + 1 <= Len(text) /\ text[p] = Newline /\ text[p + 1] = Newline
    \/ /\ p + 2 <= Len(text)
       /\ text[p] = Newline
       /\ IsLetter(text[p + 1])
       /\ IsLetter(text[p + 2])

\* re.search(r'(?:SKILLS|skills)[:\s]*(.+?)(?:\n\n|\n[A-Z]{2,}|$)', text,
\* re.IGNORECASE | re.DOTALL): group 1 of the leftmost match, None without one
SkillsMatch(text) ==
    LET up == upper(text)
        starts == {i \in 1..(Len(text) - 5) :
                     SubSeq(up, i, i + 5) = <<"S", "K", "I", "L", "L", "S">>}
        \* a match at i takes group 1 from g to e: the separators before g
        \* are [:\s]*, as many as leave a match, and e is the first end
        Groups(i) ==
            {ge \in (i + 6..Len(text)) \X (i + 6..Len(text)) :
                /\ ge[1] <= ge[2]
                /\ \A k \in (i + 6)..(ge[1] - 1) : text[k] = ":" \/ IsWhite(text[k])
                /\ SectionEndsAt(text, ge[2] + 1)}
        matching == {i \in starts : Groups(i) # {}}
    IN  IF matching = {} THEN None
        ELSE LET i == CHOOSE x \in matching : \A y \in matching : x <= y
                 g == CHOOSE x \in {ge[1] : ge \in Groups(i)} :
                          \A y \in {ge[1] : ge \in Groups(i)} : y <= x
                 e == CHOOSE x \in {ge[2] : ge \in {h \in Groups(i) : h[1] = g}} :
                          \A y \in {ge[2] : ge \in {h \in Groups(i) : h[1] = g}} : x <= y
             IN  SubSeq(text, g, e)

\* text.split('.')[0] + '.' if '.' in text else text
FirstSentence(text) ==
    IF InList(".", text) THEN split(text, ".")[1] \o <<".">> ELSE text

\* the filter of texts that are too long to be one section
TrimOverlong(text, section_type) ==
    LET max_length == MaxLengthOf(section_type) IN
    IF Len(text) > max_length * 2
    THEN IF section_type = "skill" /\ Contains(<<"S", "K", "I", "L", "L", "S">>, upper(text))
         THEN (IF SkillsMatch(text) # None
               THEN Take(strip(SkillsMatch(text)), max_length)
               ELSE text)
         ELSE IF section_type = "bullet" THEN Take(FirstSentence(text), max_length)
         ELSE text
    ELSE text

\* the loop of _generate_batch_suggestions over response_data['suggestions'];
\* an element without .get raises out of the loop, into the except clause
\* that returns []
RECURSIVE BatchFrom(_, _, _)
BatchFrom(suggestions_list, i, suggestions) ==
    IF i > Len(suggestions_list) THEN suggestions
    ELSE LET sug_data == suggestions_list[i] IN
         IF ~sug_data.is_dict THEN <<>>
         ELSE LET section_type == sug_data.section_type
                  max_length == MaxLengthOf(section_type)
                  original_text == TrimOverlong(strip(sug_data.original_text), section_type)
                  suggested_text == TrimOverlong(strip(sug_data.suggested_text), section_type)
              IN  IF suggested_text = <<>> \/ original_text = <<>>
                  THEN BatchFrom(suggestions_list, i + 1, suggestions)
                  ELSE IF suggested_text = original_text
                  THEN BatchFrom(suggestions_list, i + 1, suggestions)
                  ELSE IF ~sug_data.builds
                  THEN BatchFrom(suggestions_list, i + 1, suggestions)
                  ELSE BatchFrom(suggestions_list, i + 1,
                         Append(suggestions,
                                [section_type |-> section_type,
                                 section_id |-> sug_data.section_id,
                                 original_text |-> Take(original_text, max_length),
                                 suggested_text |-> Take(suggested_text, max_length),
                                 reason |-> sug_data.reason,
                                 jd_mapping |-> sug_data.jd_mapping,
                                 expected_score_delta |-> sug_data.expected_score_delta,
                                 category |-> None,
                                 priority |-> None]))

\* SuggestionEngine._generate_batch_suggestions: every failure is []
_generate_batch_suggestions(reply) ==
    LET response == generate_chat_completion(reply) IN
    IF response.raised THEN <<>>
    ELSE IF ~ParsesAsJson(reply) THEN <<>>
    ELSE IF reply.kind # "json_ok" THEN <<>>
    ELSE BatchFrom(reply.data.suggestions, 1, <<>>)

\* SuggestionEngine.generate_suggestions from the point where all_suggestions
\* holds the batch and the skill suggestions
engine_generate_suggestions(all_suggestions, max_suggestions) ==
    Slice(SortByDelta(all_suggestions, <<>>), max_suggestions)

\* sep.join(items)
RECURSIVE JoinBy(_, _)
JoinBy(items, sep) ==
    IF items = <<>> THEN <<>>
    ELSE IF Len(items) = 1 THEN items[1]
    ELSE items[1] \o sep \o JoinBy(Tail(items), sep)

\* xs if xs else ys
OrElse(xs, ys) == IF xs # <<>> THEN xs ELSE ys

\* f"  - {r}" with the bullet sign of the source written ~
BulletLine(r) == <<" ", " ", "~", " ">> \o r

\* one part for each item
BulletLines(items) == [i \in 1..Len(items) |-> BulletLine(items[i])]

\* the line the source builds for a nice-to-have item: the literal r, not
\* the item
LiteralLine(r) == <<" ", " ", "~", " ", "r">>

LiteralLines(items) == [i \in 1..Len(items) |-> LiteralLine(items[i])]

SimpleJDLimit == 6000
BatchJDLimit == 4000
MustHaveShown == 10
NiceToHaveShown == 8
TechSkillsShown == 15
SoftSkillsShown == 10
KeyTermsShown == 15
ResponsibilitiesShown == 8
RequirementsShown == 8
PreferredQualificationsShown == 5
RequiredSkillsShown == 15
PreferredSkillsShown == 10
KeywordsShown == 20

\* SimpleSuggestionEngine._prepare_jd_for_matching
_prepare_jd_for_matching(jd) ==
    LET must_have == OrElse(jd.must_have_requirements, jd.requirements)
        nice_to_have == OrElse(jd.nice_to_have_requirements, jd.preferred_qualifications)
        tech_skills == OrElse(jd.technical_skills, jd.required_skills)
        keywords == OrElse(jd.keywords_to_include, jd.keywords)
        parts ==
            <<<<"ROLE: ">> \o jd.role_title>>
            \o (IF Truthy(jd.company) THEN <<<<"COMPANY: ">> \o jd.company>> ELSE <<>>)
            \o (IF Truthy(jd.role_summary)
                THEN <<<<Newline, "ROLE SUMMARY: ">> \o jd.role_summary>> ELSE <<>>)
            \o (IF must_have # <<>>
                THEN <<<<Newline, "MUST-HAVE REQUIREMENTS:">>>>
                     \o BulletLines(Take(must_have, MustHaveShown))
                ELSE <<>>)
            \o (IF nice_to_have # <<>>
                THEN <<<<Newline, "NICE-TO-HAVE:">>>>
                     \o LiteralLines(Take(nice_to_have, NiceToHaveShown))
                ELSE <<>>)
            \o (IF tech_skills # <<>>
                THEN <<<<Newline, "TECHNICAL SKILLS: ">>
                       \o Join(Take(tech_skills, TechSkillsShown))>>
                ELSE <<>>)
            \o (IF jd.soft_skills # <<>>
                THEN <<<<Newline, "SOFT SKILLS: ">>
                       \o Join(Take(jd.soft_skills, SoftSkillsShown))>>
                ELSE <<>>)
            \o (IF keywords # <<>>
                THEN <<<<Newline, "KEY TERMS: ">> \o Join(Take(keywords, KeyTermsShown))>>
                ELSE <<>>)
            \o (IF jd.responsibilities # <<>>
                THEN <<<<Newline, "RESPONSIBILITIES:">>>>
                     \o BulletLines(Take(jd.responsibilities, ResponsibilitiesShown))
                ELSE <<>>)
    IN  JoinBy(parts, <<Newline>>)

\* SuggestionEngine._create_jd_summary
_create_jd_summary(jd) ==
    LET bullets(items) == JoinBy(BulletLines(items), <<Newline>>)
        summary_parts ==
            <<<<"ROLE: ">> \o jd.role_title>>
            \o (IF Truthy(jd.company) THEN <<<<"COMPANY: ">> \o jd.company>> ELSE <<>>)
            \o (IF jd.responsibilities # <<>>
                THEN <<<<Newline, "KEY RESPONSIBILITIES:">>,
                       bullets(Take(jd.responsibilities, ResponsibilitiesShown))>>
                ELSE <<>>)
            \o (IF jd.requirements # <<>>
                THEN <<<<Newline, "REQUIREMENTS:">>,
                       bullets(Take(jd.requirements, RequirementsShown))>>
                ELSE <<>>)
            \o (IF jd.preferred_qualifications # <<>>
                THEN <<<<Newline, "PREFERRED QUALIFICATIONS:">>,
                       bullets(Take(jd.preferred_qualifications,
                                    PreferredQualificationsShown))>>
                ELSE <<>>)
            \o (IF jd.required_skills # <<>>
                THEN <<<<Newline, "REQUIRED SKILLS: ">>
                       \o Join(Take(jd.required_skills, RequiredSkillsShown))>>
                ELSE <<>>)
            \o (IF jd.preferred_skills # <<>>
                THEN <<<<"PREFERRED SKILLS: ">>
                       \o Join(Take(jd.preferred_skills, PreferredSkillsShown))>>
                ELSE <<>>)
            \o (IF jd.keywords # <<>>
                THEN <<<<Newline, "KEYWORDS: ">> \o Join(Take(jd.keywords, KeywordsShown))>>
                ELSE <<>>)
    IN  JoinBy(summary_parts, <<Newline>>)

\* the prompt SimpleSuggestionEngine.generate_suggestions sends: the JD text
\* _build_enhanced_prompt places under JOB DESCRIPTION
simple_prompt(jd, max_suggestions) ==
    [jd_text |-> Take(_prepare_jd_for_matching(jd), SimpleJDLimit),
     max_suggestions |-> max_suggestions]

\* the prompt SuggestionEngine._generate_batch_suggestions sends
batch_prompt(jd, max_suggestions) ==
    [jd_text |-> Take(IF Truthy(jd.raw_text) THEN jd.raw_text
                      ELSE _create_jd_summary(jd), BatchJDLimit),
     max_suggestions |-> max_suggestions]

\* SuggestionEngine.generate_suggestions: the batch suggestions, extended by
\* the skill suggestions, sorted by expected_score_delta and cut
SuggestionEngine_generate_suggestions(reply, skills, required, preferred, n) ==
    LET all_suggestions == _generate_batch_suggestions(reply)
        skill_suggestions == _suggest_skill_additions(skills, required, preferred)
    IN  engine_generate_suggestions(all_suggestions \o skill_suggestions, n)

----------------------------------------------------------------------------
(* The inputs of extraction                                                *)

Name1 == <<"A", "b">>
Email1 == <<"a", "@", "b">>
Header1 == <<"A", "b", "c">>
Header2 == <<"B", "c", "a">>
GoodBullet1 == <<"~", " ">> \o Rep("a", 6)
GoodBullet2 == <<"-", " ">> \o Rep("b", 7) \o <<" ">>
ShortBullet == <<"~", " ", "a", "b">>

DocEntries ==
    { <<>>,
      << <<Header1, GoodBullet1>> >>,
      << <<Header1, ShortBullet>> >>,
      << <<Header1, Header2, GoodBullet1, ShortBullet>>, <<Header2, GoodBullet2>> >> }

DocEducation == { <<>>, << <<"B", "A", ",", " ", "a", "b", "c">> >> }

DocSkills ==
    { <<>>,
      << <<"a", "b", ",", " ", "b", "c">> >>,
      << <<"a", "b", ",", " ", "A", "B">> >>,
      << <<"~", " ", "a", "b", ";", "a", "b", ",", "c">> >> }

DocCerts == { <<>>, << <<"a", "b", "c", "a">> >> }

ResumeDocs ==
    [blank : {FALSE}, name : {None, Name1}, email : {None, Email1},
     summary : {None}, entries : DocEntries, education : DocEducation,
     skills : DocSkills, certs : DocCerts]
    \cup
    [blank : {TRUE}, name : {None}, email : {None}, summary : {None},
     entries : {<<>>}, education : {<<>>}, skills : {<<>>}, certs : {<<>>}]

\* JSON objects the collaborator may return for the resume schema
ResumePayloads ==
    { [name |-> None, email |-> None, summary |-> None, experience |-> <<>>,
       education |-> <<>>, skills |-> <<>>],
      [name |-> Name1, email |-> None, summary |-> None,
       experience |-> << <<Rep("a", 3), <<" ">> >>, << <<" ">> >> >>,
       education |-> <<>>,
       skills |-> << <<"a", "b", ",", "A", "B">>, <<"a", "b">> >>] }

FailedReplies ==
    [kind : ReplyKinds \ {"json_ok"}, fenced : BOOLEAN, data : {<<>>}]

ResumeReplies ==
    FailedReplies \cup [kind : {"json_ok"}, fenced : BOOLEAN, data : ResumePayloads]

JDTexts ==
    [blank : {FALSE}, text : {<<"jd1">>, <<"jd2">>}, title : {None, <<"Engineer">>}]
    \cup [blank : {TRUE}, text : {<<" ">>}, title : {None}]

JDPayloads == { [role_title |-> None], [role_title |-> <<"Manager">>] }

JDReplies ==
    FailedReplies \cup [kind : {"json_ok"}, fenced : BOOLEAN, data : JDPayloads]

----------------------------------------------------------------------------
(* Extraction runs                                                         *)

ExtIdle == [kind |-> "idle"]

\* ResumeParser.parse on a PDF / DOCX file
parse_resume(doc, reply) ==
    /\ ext' = [kind |-> "resume", doc |-> doc, reply |-> reply,
               llm_produced |-> ~doc.blank /\ _parse_with_llm(doc, reply).produced,
               result |-> _parse_pdf(doc, reply)]
    /\ UNCHANGED <<tables, db_resume, db_suggestions, ops, last, gen>>

\* JobDescriptionParser.parse on pasted text
parse_jd(text, reply) ==
    /\ ext' = [kind |-> "jd", doc |-> text, reply |-> reply,
               llm_produced |-> ~text.blank /\ _parse_text_with_llm(text, reply).produced,
               result |-> jd_parse_text(text, reply)]
    /\ UNCHANGED <<tables, db_resume, db_suggestions, ops, last, gen>>

\* the caller has consumed the result; the parser holds no state between calls
extraction_returned ==
    /\ ext.kind # "idle"
    /\ ext' = ExtIdle
    /\ UNCHANGED <<tables, db_resume, db_suggestions, ops, last, gen>>

NoResume == <<>>
GenIdle == [kind |-> "idle"]

InitExtract ==
    /\ db_resume = NoResume
    /\ db_suggestions = <<>>
    /\ ops = {}
    /\ last = 0
    /\ ext = ExtIdle
    /\ gen = GenIdle
    /\ db_sessions = <<>>
    /\ db_resume_rows = <<>>
    /\ requests = <<>>

\* the near-duplicate test of the aggressive fallback: one text contains the
\* other and shorter / longer > 0.8
OverlapTenths == 8
MinUniqueLen == 30
MaxUniqueItems == 30

Max(a, b) == IF a > b THEN a ELSE b

IsSimilar(item_lower, seen_item) ==
    LET shorter == Min(Len(item_lower), Len(seen_item))
        longer == Max(Len(item_lower), Len(seen_item))
    IN  /\ shorter > 0 /\ longer > 0
        /\ Contains(item_lower, seen_item) \/ Contains(seen_item, item_lower)
        /\ shorter * 10 > OverlapTenths * longer

\* the loop that removes duplicates and similar items while preserving order
RECURSIVE UniqueFrom(_, _, _, _)
UniqueFrom(items, i, seen, unique_items) ==
    IF i > Len(items) THEN unique_items
    ELSE LET item_lower == strip(lower(items[i]))
             is_duplicate == \E seen_item \in seen : IsSimilar(item_lower, seen_item)
         IN  IF ~is_duplicate /\ Len(item_lower) > MinUniqueLen
             THEN UniqueFrom(items, i + 1, seen \cup {item_lower},
                             Append(unique_items, items[i]))
             ELSE UniqueFrom(items, i + 1, seen, unique_items)

\* list(dict.fromkeys(bullets))
RECURSIVE FromKeys(_, _)
FromKeys(bullets, kept) ==
    IF bullets = <<>> THEN kept
    ELSE IF InList(Head(bullets), kept) THEN FromKeys(Tail(bullets), kept)
    ELSE FromKeys(Tail(bullets), Append(kept, Head(bullets)))

\* JobDescriptionParser._extract_all_bullet_points from the cleaned matches of
\* its patterns on: the length filter, the removal of similar items, [:30]
_extract_all_bullet_points(bullets) ==
    LET items == SelectSeq(bullets, LAMBDA b : Len(b) > MinUniqueLen)
    IN  Take(UniqueFrom(items, 1, {}, <<>>), MaxUniqueItems)

\* the aggressive fallback of the /api/parse-jd endpoint from the stripped
\* matches of its patterns on: unique_bullets
aggressive_fallback(bullets) ==
    UniqueFrom(FromKeys(bullets, <<>>), 1, {}, <<>>)

MaxBullets == 3

Base40 == Rep("a", 20) \o Rep("b", 20)

\* what the patterns can find in a posting: a bullet of 40 characters, its
\* first 36 (90%) and first 32 (80%) characters, the first 36 in another
\* case, an unrelated bullet, and one too short to keep
FoundBullets ==
    {Base40, Take(Base40, 36), Take(Base40, 32),
     Rep("A", 20) \o Rep("b", 16), Rep("c", 35), Rep("a", 25)}

run_extract_all_bullet_points(bullets) ==
    /\ ext' = [kind |-> "bullets", bullets |-> bullets,
               result |-> _extract_all_bullet_points(bullets)]
    /\ UNCHANGED <<tables, db_resume, db_suggestions, ops, last, gen>>

run_aggressive_fallback(bullets) ==
    /\ ext' = [kind |-> "bullets", bullets |-> bullets,
               result |-> aggressive_fallback(bullets)]
    /\ UNCHANGED <<tables, db_resume, db_suggestions, ops, last, gen>>

all_bullet_points_extracted ==
    /\ ext.kind = "idle"
    /\ \E bullets \in SeqsUpTo(FoundBullets, MaxBullets) :
          run_extract_all_bullet_points(bullets)

aggressive_fallback_taken ==
    /\ ext.kind = "idle"
    /\ \E bullets \in SeqsUpTo(FoundBullets, MaxBullets) :
          run_aggressive_fallback(bullets)

\* the character classes of the patterns of _join_wrapped_lines
UpperSet == {UpperLetters[i] : i \in 1..26}
LetterSet == UpperSet \cup {LowerLetters[i] : i \in 1..26}
WhiteSet == {" ", "\t"}
WordChars == LetterSet \cup Digits \cup {"_"}

\* the position after the longest run of characters of chars that starts at i
RECURSIVE RunEnd(_, _, _)
RunEnd(s, i, chars) ==
    IF i <= Len(s) /\ s[i] \in chars THEN RunEnd(s, i + 1, chars) ELSE i

\* s[i-1:].startswith(p) for a 1-based i
StartsWithAt(s, i, p) == i + Len(p) - 1 <= Len(s) /\ SubSeq(s, i, i + Len(p) - 1) = p

\* re.match(r'^\d+\.\s', stripped)
NumberedItem(s) ==
    LET k == RunEnd(s, 1, Digits) IN
    k > 1 /\ k + 1 <= Len(s) /\ s[k] = "." /\ s[k + 1] \in WhiteSet

\* re.match(r'^[A-Z][A-Z\s&]+$', stripped)
AllCapsHeading(s) ==
    /\ Len(s) >= 2
    /\ s[1] \in UpperSet
    /\ \A i \in 2..Len(s) : s[i] \in UpperSet \cup WhiteSet \cup {"&"}

\* re.match(r'^[A-Z][A-Za-z\s]+,\s*[A-Z]', stripped)
NameCommaUpper(s) ==
    /\ s # <<>>
    /\ s[1] \in UpperSet
    /\ LET k == RunEnd(s, 2, LetterSet \cup WhiteSet) IN
       /\ k > 2 /\ k <= Len(s) /\ s[k] = ","
       /\ LET j == RunEnd(s, k + 1, WhiteSet) IN j <= Len(s) /\ s[j] \in UpperSet

YearDigits == 4

\* re.match(r'.*\|\s*\w+\s+\d{4}', stripped)
PipeDate(s) ==
    \E p \in 1..Len(s) :
        /\ s[p] = "|"
        /\ LET a == RunEnd(s, p + 1, WhiteSet)
               b == RunEnd(s, a, WordChars)
               c == RunEnd(s, b, WhiteSet)
           IN  /\ b > a /\ c > b
               /\ c + YearDigits - 1 <= Len(s)
               /\ \A d \in c..(c + YearDigits - 1) : s[d] \in Digits

SectionWords ==
    { <<"E", "X", "P", "E", "R", "I", "E", "N", "C", "E">>, <<"E", "D", "U", "C", "A", "T", "I", "O", "N">>, <<"S", "K", "I", "L", "L", "S">>,
      <<"S", "U", "M", "M", "A", "R", "Y">>, <<"C", "E", "R", "T", "I", "F", "I", "C", "A", "T", "I", "O", "N", "S">>, <<"T", "E", "C", "H", "N", "I", "C", "A", "L">> }

\* re.match(r'^(WORK\s+)?EXPERIENCE|EDUCATION|SKILLS|SUMMARY|CERTIFICATIONS
\* |TECHNICAL', stripped, re.IGNORECASE): every alternative is tried at the
\* start of the line
SectionHeading(s) ==
    LET u == upper(s) IN
    \/ \E w \in SectionWords : StartsWith(u, w)
    \/ /\ StartsWith(u, <<"W", "O", "R", "K">>)
       /\ LET a == RunEnd(u, 5, WhiteSet) IN
          a > 5 /\ StartsWithAt(u, a, <<"E", "X", "P", "E", "R", "I", "E", "N", "C", "E">>)

SeniorityWords == { <<"S", "E", "N", "I", "O", "R">>, <<"L", "E", "A", "D">>, <<"S", "T", "A", "F", "F">>, <<"P", "R", "I", "N", "C", "I", "P", "A", "L">> }
RoleAreas ==
    { <<"P", "R", "O", "D", "U", "C", "T">>, <<"P", "R", "O", "J", "E", "C", "T">>, <<"P", "R", "O", "G", "R", "A", "M">>, <<"E", "N", "G", "I", "N", "E", "E", "R", "I", "N", "G">>,
      <<"S", "O", "F", "T", "W", "A", "R", "E">>, <<"D", "A", "T", "A">>, <<"T", "E", "C", "H", "N", "I", "C", "A", "L">> }
RoleKinds == { <<"M", "A", "N", "A", "G", "E", "R">>, <<"D", "I", "R", "E", "C", "T", "O", "R">>, <<"E", "N", "G", "I", "N", "E", "E", "R">>, <<"A", "N", "A", "L", "Y", "S", "T">>, <<"L", "E", "A", "D">> }

\* (Product|...|Technical)\s+(Manager|...|Lead) at position i of u
RoleAt(u, i) ==
    \E w1 \in RoleAreas :
        /\ StartsWithAt(u, i, w1)
        /\ LET b == RunEnd(u, i + Len(w1), WhiteSet) IN
           /\ b > i + Len(w1)
           /\ \E w2 \in RoleKinds : StartsWithAt(u, b, w2)

\* re.match(r'^(Senior\s+|Lead\s+|Staff\s+|Principal\s+)?(Product|...)\s+
\* (Manager|...)', stripped, re.IGNORECASE)
JobTitleLine(s) ==
    LET u == upper(s) IN
    \/ RoleAt(u, 1)
    \/ \E w \in SeniorityWords :
          /\ StartsWith(u, w)
          /\ LET a == RunEnd(u, Len(w) + 1, WhiteSet) IN
             a > Len(w) + 1 /\ RoleAt(u, a)

\* is_new_item: the line starts a new section, bullet or entry
is_new_item(stripped) ==
    \/ StartsWith(stripped, <<"~">>)
    \/ StartsWith(stripped, <<"-", " ">>)
    \/ StartsWith(stripped, <<"*", " ">>)
    \/ NumberedItem(stripped)
    \/ AllCapsHeading(stripped)
    \/ NameCommaUpper(stripped)
    \/ PipeDate(stripped)
    \/ SectionHeading(stripped)
    \/ JobTitleLine(stripped)

\* current_line.endswith(('.', ':', '!', '?'))
EndsWithTerminal(s) == s # <<>> /\ s[Len(s)] \in {".", ":", "!", "?"}

\* the loop of _join_wrapped_lines over the lines left, and the flush of the
\* unit in hand after it
RECURSIVE JoinLines(_, _, _)
JoinLines(lines, joined_lines, current_line) ==
    IF lines = <<>>
    THEN IF current_line # <<>> THEN Append(joined_lines, current_line)
         ELSE joined_lines
    ELSE LET stripped == strip(Head(lines))
             rest == Tail(lines)
             flushed == IF current_line # <<>> THEN Append(joined_lines, current_line)
                        ELSE joined_lines
         IN  IF stripped = <<>> THEN JoinLines(rest, flushed, <<>>)
             ELSE IF is_new_item(stripped) THEN JoinLines(rest, flushed, stripped)
             ELSE IF current_line = <<>> THEN JoinLines(rest, joined_lines, stripped)
             ELSE IF \/ StartsWith(current_line, <<"~">>)
                     \/ StartsWith(current_line, <<"-", " ">>)
                  THEN JoinLines(rest, joined_lines, current_line \o <<" ">> \o stripped)
             ELSE IF ~EndsWithTerminal(current_line)
                  THEN JoinLines(rest, joined_lines, current_line \o <<" ">> \o stripped)
             ELSE JoinLines(rest, flushed, stripped)

\* ResumeParser._join_wrapped_lines
_join_wrapped_lines(text) ==
    JoinBy(JoinLines(split(text, Newline), <<>>, <<>>), <<Newline>>)

MaxLines == 3

\* the lines of the texts that are unwrapped: a blank line, bullets with and
\* without a final full stop, a heading, a numbered item, and plain lines
WrappedLines ==
    { <<>>, <<" ">>,
      <<"~", " ", "a", ".">>, <<"~", " ", "a">>,
      <<"-", " ", "b", "!">>,
      <<"A", "B">>, <<"1", ".", " ", "a">>,
      <<"a", " ", "b", ".">>, <<"a", " ", "b">>, <<" ", "c", ":">>, <<"d">> }

WrappedTexts ==
    {JoinBy(lines, <<Newline>>) : lines \in SeqsUpTo(WrappedLines, MaxLines) \ {<<>>}}

run_join_wrapped_lines(text) ==
    /\ ext' = [kind |-> "joined", text |-> text, result |-> _join_wrapped_lines(text)]
    /\ UNCHANGED <<tables, db_resume, db_suggestions, ops, last, gen>>

wrapped_lines_joined ==
    /\ ext.kind = "idle"
    /\ \E text \in WrappedTexts : run_join_wrapped_lines(text)

\* the parser handles one call at a time
upload_resume_file ==
    /\ ext.kind = "idle"
    /\ \E doc \in ResumeDocs, reply \in ResumeReplies : parse_resume(doc, reply)

paste_jd_text ==
    /\ ext.kind = "idle"
    /\ \E text \in JDTexts, reply \in JDReplies : parse_jd(text, reply)

NextExtract ==
    \/ upload_resume_file
    \/ paste_jd_text
    \/ all_bullet_points_extracted
    \/ aggressive_fallback_taken
    \/ wrapped_lines_joined
    \/ extraction_returned

SpecExtract == InitExtract /\ [][NextExtract]_vars

----------------------------------------------------------------------------
(* Properties of extraction (SpecExtract)                                  *)

ResumeReturned == ext.kind = "resume" /\ ext.result.ok

EmptyText(t) == t = None \/ t = <<>>

\* C4: resume extraction never returns a ResumeData whose name and email are
\* both empty and whose experience and education are both empty; a document
\* the rule-based strategy finds none of the four in is rejected as
\* unparseable.
NoEmptyResumeReturned ==
    /\ ResumeReturned =>
         ~(/\ EmptyText(ext.result.data.personal_info.name)
           /\ EmptyText(ext.result.data.personal_info.email)
           /\ ext.result.data.experience = <<>>
           /\ ext.result.data.education = <<>>)
    /\ (/\ ext.kind = "resume"
        /\ ~ext.doc.blank
        /\ ~ext.llm_produced
        /\ ext.doc.name = None /\ ext.doc.email = None
        /\ _extract_experience(ext.doc.entries) = <<>>
        /\ _extract_education(ext.doc.education) = <<>>)
       => (~ext.result.ok
           /\ ext.result.error = "Could not extract meaningful content from resume.")

\* a document with skills but no name, e-mail, kept experience entry or
\* education, and a reply that is a schema-conforming but empty object: the
\* extraction ended in the unparseable-document error
EmptyResumeRejected ==
    /\ ext.kind = "resume"
    /\ ~ext.doc.blank
    /\ ext.doc.name = None /\ ext.doc.email = None
    /\ ext.doc.entries # <<>> /\ ext.doc.skills # <<>>
    /\ ext.reply.kind = "json_ok" /\ EmptyText(ext.reply.data.name)
    /\ ~ext.result.ok
    /\ ext.result.error = "Could not extract meaningful content from resume."

\* the collaborator call failed, returned empty content, or returned text
\* that json.loads rejects
CollaboratorFailed(reply) ==
    \/ reply.kind \in {"api_error", "empty", "error_text", "garbage"}

\* C5: when the collaborator call fails, returns empty content or returns
\* text that is not JSON, the model-assisted strategy reports unavailable and
\* extraction (of a JD or of a resume) returns what the rule-based strategy
\* returns on the same text, raising only where that strategy raises.
CollaboratorFailureFallsBack ==
    (ext.kind \in {"resume", "jd"} /\ ~ext.doc.blank /\ CollaboratorFailed(ext.reply))
    => /\ ~ext.llm_produced
       /\ ext.kind = "resume" => ext.result = _parse_text(ext.doc)
       /\ ext.kind = "jd" => ext.result = Ok(jd_parse_regex(ext.doc))

\* a JD whose collaborator call raised was extracted by the rules, and so was
\* a resume whose reply was not JSON
JDFellBack ==
    /\ ext.kind = "jd" /\ ~ext.doc.blank
    /\ ext.reply.kind = "api_error"
    /\ ext.result.ok
    /\ ext.result.data.role_title = <<"Engineer">>

----------------------------------------------------------------------------
(* Suggestion generation runs                                              *)

MaxReplyLen == 3
MaxCount == 3

Bullet00 == <<"experience", "_", "0", "_", "bullet", "_", "0">>

RawSuggestion(original, suggested, priority, delta) ==
    [is_dict |-> TRUE, builds |-> TRUE,
     section_type |-> "bullet", section_id |-> Bullet00,
     original_text |-> original, suggested_text |-> suggested,
     reason |-> <<"r0">>, jd_mapping |-> <<"m0">>, category |-> None,
     priority |-> priority, expected_score_delta |-> delta]

LongOriginal == Rep("a", MaxTextLen + 1)
LongSuggested == Rep("a", MaxTextLen) \o <<"b">>

\* the elements a reply is made of
RawSuggestions ==
    { RawSuggestion(<<"a", "b">>, <<"b", "c">>, <<"high">>, 1),
      RawSuggestion(<<" ", "A", "B", " ">>, <<"c">>, <<"low">>, 3),
      RawSuggestion(<<"b", "a">>, <<"a", "b">>, <<"low">>, 2),
      RawSuggestion(<<"c", "c">>, <<"c">>, <<"urgent">>, 3),
      RawSuggestion(<<"b", "b">>, <<"c">>, None, 2),
      RawSuggestion(<<"c", "a">>, <<" ", "c", "a">>, <<"high">>, 2),
      RawSuggestion(<<"c", "b">>, <<" ">>, <<"high">>, 2),
      RawSuggestion(LongOriginal, LongSuggested, <<"medium">>, 1),
      [RawSuggestion(<<"c", "b">>, <<"a">>, <<"high">>, 3) EXCEPT !.builds = FALSE],
      [RawSuggestion(<<"a", "c">>, <<"a">>, <<"high">>, 3) EXCEPT !.is_dict = FALSE] }

SuggestionReplies ==
    FailedReplies
    \cup { [kind |-> "json_ok", fenced |-> f,
            data |-> [summary |-> <<"overview">>, suggestions |-> l]] :
           f \in {FALSE}, l \in SeqsUpTo(RawSuggestions, MaxReplyLen) }

Counts == (0 - 1)..MaxCount

Deltas == {1, 2, 5}

\* what _generate_batch_suggestions and _suggest_skill_additions build: no
\* priority is set on any of them
EngineSuggestions(deltas) ==
    [i \in 1..Len(deltas) |->
        [id |-> i, section_type |-> "bullet", section_id |-> Bullet00,
         original_text |-> <<"a">>, suggested_text |-> <<"b">>,
         reason |-> <<"r0">>, jd_mapping |-> <<"m0">>, category |-> None,
         expected_score_delta |-> deltas[i], priority |-> None]]

\* one call of SimpleSuggestionEngine.generate_suggestions
run_generate_suggestions(reply, max_suggestions) ==
    /\ gen' = [kind |-> "simple", reply |-> reply, max |-> max_suggestions,
               validated |-> IF reply.kind = "json_ok"
                             THEN _process_suggestions(reply.data.suggestions)
                             ELSE <<>>,
               result |-> generate_suggestions(reply, max_suggestions).suggestions]
    /\ UNCHANGED <<tables, db_resume, db_suggestions, ops, last, ext>>

\* one call of SuggestionEngine.generate_suggestions
run_engine_generate_suggestions(deltas, max_suggestions) ==
    /\ gen' = [kind |-> "engine", reply |-> deltas, max |-> max_suggestions,
               validated |-> EngineSuggestions(deltas),
               result |-> engine_generate_suggestions(EngineSuggestions(deltas),
                                                      max_suggestions)]
    /\ UNCHANGED <<tables, db_resume, db_suggestions, ops, last, ext>>

\* the caller has taken the list; the engines hold no state between calls
generation_returned ==
    /\ gen.kind # "idle"
    /\ gen' = GenIdle
    /\ UNCHANGED <<tables, db_resume, db_suggestions, ops, last, ext>>

InitSuggest == InitExtract

\* the engines handle one call at a time
simple_engine_called ==
    /\ gen.kind = "idle"
    /\ \E reply \in SuggestionReplies, n \in Counts :
          run_generate_suggestions(reply, n)

engine_called ==
    /\ gen.kind = "idle"
    /\ \E deltas \in SeqsUpTo(Deltas, MaxReplyLen), n \in Counts :
          run_engine_generate_suggestions(deltas, n)

NextSuggest ==
    \/ simple_engine_called
    \/ engine_called
    \/ generation_returned

SpecSuggest == InitSuggest /\ [][NextSuggest]_vars

----------------------------------------------------------------------------
(* Properties of suggestion generation (SpecSuggest)                       *)

Normalized(text) == Take(strip(lower(strip(text))), DedupPrefixLen)

\* C8: every suggestion _process_suggestions returns has non-empty
\* original_text and suggested_text that differ, and no two returned
\* suggestions have the same first 100 characters of the trimmed, lower-cased
\* original_text.
ValidatedTextsDifferAndUnique ==
    gen.kind = "simple" =>
        /\ \A i \in 1..Len(gen.validated) :
              /\ gen.validated[i].original_text # <<>>
              /\ gen.validated[i].suggested_text # <<>>
              /\ gen.validated[i].original_text # gen.validated[i].suggested_text
        /\ \A i, k \in 1..Len(gen.validated) :
              i # k => Normalized(gen.validated[i].original_text)
                       # Normalized(gen.validated[k].original_text)

KnownPriority(p) == p \in {<<"high">>, <<"medium">>, <<"low">>}

PriorityRank(p) ==
    CASE p = <<"high">> -> 0
      [] p = <<"medium">> -> 1
      [] p = <<"low">> -> 2

\* x has to come before y: a higher priority, or the same priority and a
\* larger expected_score_delta
Precedes(x, y) ==
    \/ /\ KnownPriority(x.priority) /\ KnownPriority(y.priority)
       /\ PriorityRank(x.priority) < PriorityRank(y.priority)
    \/ /\ x.priority = y.priority
       /\ x.expected_score_delta > y.expected_score_delta

\* C9: for max_count >= 0 the generator returns min(max_count, number of
\* validated suggestions) of the validated suggestions, each once, ordered by
\* priority (high, medium, low) and within a priority by non-increasing
\* expected_score_delta, and no suggestion left out has to come before one
\* that is returned: the list is the first max_count of that order.
ReturnsFirstByPriorityThenDelta ==
    (gen.kind \in {"simple", "engine"} /\ gen.max >= 0) =>
        LET r == gen.result
            v == gen.validated
        IN  /\ Len(r) <= gen.max
            /\ Len(r) = Min(gen.max, Len(v))
            /\ \A i \in 1..Len(r) : \E k \in 1..Len(v) : v[k] = r[i]
            /\ \A i, k \in 1..Len(r) : i < k => r[i].id # r[k].id
            /\ \A i, k \in 1..Len(r) : i < k => ~Precedes(r[k], r[i])
            /\ \A k \in 1..Len(v) :
                  (\A i \in 1..Len(r) : r[i].id # v[k].id)
                  => \A i \in 1..Len(r) : ~Precedes(v[k], r[i])

\* three validated suggestions, the low one first in the reply, two asked
\* for: the high one was returned first and the low one left out
LowLeftOutHighFirst ==
    /\ gen.kind = "simple" /\ gen.max = 2
    /\ Len(gen.validated) = 3
    /\ gen.validated[1].priority = <<"low">>
    /\ Len(gen.result) = 2
    /\ gen.result[1].priority = <<"high">>
    /\ \A i \in 1..2 : gen.result[i].priority # <<"low">>

\* C10: original_text and suggested_text of every returned suggestion have
\* at most 500 characters.
ReturnedTextsAtMost500 ==
    gen.kind = "simple" =>
        \A i \in 1..Len(gen.result) :
            /\ Len(gen.result[i].original_text) <= MaxTextLen
            /\ Len(gen.result[i].suggested_text) <= MaxTextLen

-----------------------------------------------------------------------------
(* ATSScorer.  A score is a float in the source; here it is the exact      *)
(* rational it stands for, counted in units of 1/ScoreUnit of a point, so  *)
(* that every ratio the scorer forms over the bounded inputs is a whole    *)
(* number of units.  The rounding of binary floating point is left out.    *)

ScoreUnit == 600

Points(n) == n * ScoreUnit

KeywordWeight == 4
SkillWeight == 4
CompletenessWeight == 2

\* the weights 0.4, 0.4 and 0.2, in tenths
\* (below: completeness weighted like the keywords)
calculate_ats_score_equal_weights(breakdown) ==
    (breakdown.keyword_score * KeywordWeight
     + breakdown.skill_score * SkillWeight
     + breakdown.completeness_score * KeywordWeight) \div 10

\* ATSScorer.calculate_ats_score
calculate_ats_score(breakdown) ==
    (breakdown.keyword_score * KeywordWeight
     + breakdown.skill_score * SkillWeight
     + breakdown.completeness_score * CompletenessWeight) \div 10

RequiredPoints == 70
PreferredPoints == 30
FullPoints == 100

\* set([s.lower() for s in skills])
LowerSet(skills) == {lower(skills[i]) : i \in 1..Len(skills)}

\* the JD skills mentioned in some experience bullet, lower-cased
MentionedSkills(bullets, jd_skills) ==
    {lower(jd_skills[i]) : i \in
        {j \in 1..Len(jd_skills) :
            \E b \in 1..Len(bullets) :
                Contains(lower(jd_skills[j]), lower(bullets[b]))}}

\* the score of _calculate_skill_score, given the set resume_skills
SkillScoreOf(resume_skills, required_skills, preferred_skills) ==
    LET matched_required == resume_skills \cap required_skills
        missing_required == required_skills \ resume_skills
        matched_preferred == resume_skills \cap preferred_skills
        score ==
            IF Cardinality(required_skills) = 0 /\ Cardinality(preferred_skills) = 0
            THEN Points(FullPoints)
            ELSE IF Cardinality(required_skills) = 0
            THEN (IF preferred_skills # {}
                  THEN (Cardinality(matched_preferred) * Points(FullPoints))
                         \div Cardinality(preferred_skills)
                  ELSE Points(FullPoints))
            ELSE LET required_score ==
                         (Cardinality(matched_required) * Points(RequiredPoints))
                            \div Cardinality(required_skills)
                     preferred_score ==
                         IF preferred_skills # {}
                         THEN (Cardinality(matched_preferred) * Points(PreferredPoints))
                                \div Cardinality(preferred_skills)
                         ELSE 0
                 IN  required_score + preferred_score
    IN  [score |-> score,
         matched_skills |-> matched_required \cup matched_preferred,
         missing_skills |-> missing_required]

\* the score when only the declared skills count
_calculate_skill_score_declared_only(skills, bullets, required, preferred) ==
    SkillScoreOf(LowerSet(skills), LowerSet(required), LowerSet(preferred))

\* ATSScorer._calculate_skill_score; bullets are the texts of all bullets of
\* all experience entries; the two lists it returns are in set order, so
\* they are kept as sets
_calculate_skill_score(skills, bullets, required, preferred) ==
    SkillScoreOf(LowerSet(skills) \cup MentionedSkills(bullets, required \o preferred),
                 LowerSet(required), LowerSet(preferred))

\* ATSScorer._get_stop_words
_get_stop_words ==
    {<<"t", "h", "e">>, <<"a">>, <<"a", "n">>, <<"a", "n", "d">>,
     <<"o", "r">>, <<"b", "u", "t">>, <<"i", "n">>, <<"o", "n">>,
     <<"a", "t">>, <<"t", "o">>, <<"f", "o", "r">>, <<"o", "f">>,
     <<"w", "i", "t", "h">>, <<"b", "y">>, <<"f", "r", "o", "m">>,
     <<"a", "s">>, <<"i", "s">>, <<"w", "a", "s">>, <<"a", "r", "e">>,
     <<"w", "e", "r", "e">>, <<"b", "e">>, <<"b", "e", "e", "n">>,
     <<"b", "e", "i", "n", "g">>, <<"h", "a", "v", "e">>, <<"h", "a", "s">>,
     <<"h", "a", "d">>, <<"d", "o">>, <<"d", "o", "e", "s">>,
     <<"d", "i", "d">>, <<"w", "i", "l", "l">>, <<"w", "o", "u", "l", "d">>,
     <<"s", "h", "o", "u", "l", "d">>, <<"c", "o", "u", "l", "d">>,
     <<"m", "a", "y">>, <<"m", "i", "g", "h", "t">>, <<"m", "u", "s", "t">>,
     <<"c", "a", "n">>, <<"t", "h", "i", "s">>, <<"t", "h", "a", "t">>,
     <<"t", "h", "e", "s", "e">>, <<"t", "h", "o", "s", "e">>, <<"i">>,
     <<"y", "o", "u">>, <<"h", "e">>, <<"s", "h", "e">>, <<"i", "t">>,
     <<"w", "e">>, <<"t", "h", "e", "y">>}

MinKeywordLen == 3

\* str.split() without a separator: the non-empty parts between blanks
words(s) == SelectSeq(split(s, " "), LAMBDA w : w # <<>>)

\* the meaningful words of one requirement or responsibility
ImportantWords(req, stop_words) ==
    LET ws == words(lower(req)) IN
    {ws[i] : i \in {j \in 1..Len(ws) :
                        Len(ws[j]) > MinKeywordLen /\ ws[j] \notin stop_words}}

\* ATSScorer._keyword_match
_keyword_match(keyword, text) ==
    LET keyword_lower == lower(keyword)
        text_lower == lower(text)
        singular ==
            IF keyword_lower # <<>> /\ keyword_lower[Len(keyword_lower)] = "s"
            THEN SubSeq(keyword_lower, 1, Len(keyword_lower) - 1)
            ELSE None
        variations == {keyword_lower \o <<"s">>, keyword_lower \o <<"e", "d">>,
                       keyword_lower \o <<"i", "n", "g">>, singular}
    IN  \/ Contains(keyword_lower, text_lower)
        \/ \E variation \in variations :
              variation # None /\ variation # <<>> /\ Contains(variation, text_lower)

\* _calculate_keyword_score with the stop words as a parameter
KeywordScoreWith(stop_words, resume_text, keywords, requirements, responsibilities) ==
    LET reqs == requirements \o responsibilities
        all_keywords ==
            LowerSet(keywords)
            \cup UNION {ImportantWords(reqs[i], stop_words) : i \in 1..Len(reqs)}
        matched_keywords == {k \in all_keywords : _keyword_match(k, resume_text)}
        missing_keywords == all_keywords \ matched_keywords
        score == IF Cardinality(all_keywords) = 0 THEN Points(FullPoints)
                 ELSE (Cardinality(matched_keywords) * Points(FullPoints))
                        \div Cardinality(all_keywords)
    IN  [score |-> score, matched_keywords |-> matched_keywords,
         missing_keywords |-> missing_keywords]

\* the score when no word is a stop word
_calculate_keyword_score_no_stop_words(resume_text, keywords, requirements, responsibilities) ==
    KeywordScoreWith({}, resume_text, keywords, requirements, responsibilities)

\* ATSScorer._calculate_keyword_score; the two lists it returns are in set
\* order, so they are kept as sets
_calculate_keyword_score(resume_text, keywords, requirements, responsibilities) ==
    KeywordScoreWith(_get_stop_words, resume_text, keywords, requirements,
                     responsibilities)

\* [bullet.text for bullet in exp.bullets]
BulletTexts(bullets) == [i \in 1..Len(bullets) |-> bullets[i].text]

\* the texts of all bullets of all experience entries, in order
RECURSIVE AllBulletTexts(_)
AllBulletTexts(experience) ==
    IF experience = <<>> THEN <<>>
    ELSE BulletTexts(Head(experience).bullets) \o AllBulletTexts(Tail(experience))

\* f"{exp.title} {exp.company}" and then the bullets, entry by entry
RECURSIVE ExperienceTexts(_)
ExperienceTexts(experience) ==
    IF experience = <<>> THEN <<>>
    ELSE LET exp == Head(experience) IN
         <<exp.title \o <<" ">> \o exp.company>> \o BulletTexts(exp.bullets)
         \o ExperienceTexts(Tail(experience))

\* ATSScorer._extract_resume_text
_extract_resume_text(resume) ==
    LET texts ==
            (IF Truthy(resume.summary) THEN <<resume.summary>> ELSE <<>>)
            \o ExperienceTexts(resume.experience)
            \o [i \in 1..Len(resume.education) |->
                    resume.education[i].degree \o <<" ">> \o resume.education[i].institution]
            \o resume.skills
    IN  JoinBy(texts, <<" ">>)

MinSummaryLen == 50
MinDetailedBullets == 2

\* ATSScorer._calculate_completeness_score: the share of the six checks that
\* hold
_calculate_completeness_score(resume) ==
    LET completeness ==
            << Truthy(resume.personal_info.name) /\ Truthy(resume.personal_info.email),
               Truthy(resume.summary) /\ Len(resume.summary) > MinSummaryLen,
               Len(resume.experience) > 0,
               Len(resume.education) > 0,
               Len(resume.skills) > 0,
               \E i \in 1..Len(resume.experience) :
                   Len(resume.experience[i].bullets) >= MinDetailedBullets >>
        total_sections == Len(completeness)
        complete_sections == Cardinality({i \in 1..total_sections : completeness[i]})
    IN  (complete_sections * Points(FullPoints)) \div total_sections

\* ATSScorer.score: the three component scores of the breakdown
ATSScorer_score(resume, jd) ==
    LET resume_text == lower(_extract_resume_text(resume)) IN
    [keyword_score |->
        _calculate_keyword_score(resume_text, jd.keywords, jd.requirements,
                                 jd.responsibilities).score,
     skill_score |->
        _calculate_skill_score(resume.skills, AllBulletTexts(resume.experience),
                               jd.required_skills, jd.preferred_skills).score,
     completeness_score |-> _calculate_completeness_score(resume)]

\* ats_scorer.calculate_ats_score(ats_scorer.score(resume_data, jd_data)), as
\* every endpoint that scores computes it
combined_ats_score(resume, jd) == calculate_ats_score(ATSScorer_score(resume, jd))

----------------------------------------------------------------------------
(* app.py: the suggestion endpoints                                        *)

\* db_resume       parsed_data of the stored resume of the session
\* db_suggestions  the rows of the suggestions table; the id of a row is its
\*                 position
\* ops             the kinds of the requests that have committed
\* last            the HTTP status of the last request answered

MaxStored == 1

SummaryId == <<"summary">>
SkillsId == <<"skills">>
BulletNeg10 == <<"experience", "_", "-", "1", "_", "bullet", "_", "0">>
Bullet70 == <<"experience", "_", "7", "_", "bullet", "_", "0">>
Bullet0Neg1 == <<"experience", "_", "0", "_", "bullet", "_", "-", "1">>
Bullet09 == <<"experience", "_", "0", "_", "bullet", "_", "9">>
Bullet0c == <<"experience", "_", "0", "_", "bullet", "_", "c">>
UnknownId == <<"unknown">>

Located(section_type, section_id, original, suggested) ==
    [RawSuggestion(original, suggested, <<"high">>, 2)
        EXCEPT !.section_type = section_type, !.section_id = section_id]

\* what the collaborator may put into one element of a reply: the engine
\* passes section_type and section_id on as they come
LocatedSuggestions ==
    { Located("summary", SummaryId, <<"a">>, <<"a", "b", "c">>),
      Located("skill", SkillsId, <<"a", "b">>, <<"b", "c", ",", " ", "A", "B">>),
      Located("bullet", Bullet00, <<"a", "a">>, Rep("b", 7)),
      Located("bullet", BulletNeg10, <<"b", "b">>, Rep("c", 3)),
      Located("bullet", Bullet70, <<"c", "c">>, Rep("c", 3)),
      Located("bullet", Bullet0Neg1, <<"a", "c">>, Rep("c", 4)),
      Located("bullet", Bullet09, <<"b", "c">>, Rep("c", 3)),
      Located("bullet", Bullet0c, <<"c", "a">>, Rep("c", 3)),
      Located("bullet", UnknownId, <<"c", "b">>, Rep("c", 3)),
      Located("summary", Bullet00, <<"b">>, Rep("a", 3)) }

EndpointReplies ==
    [kind : {"api_error", "garbage"}, fenced : {FALSE}, data : {<<>>}]
    \cup { [kind |-> "json_ok", fenced |-> FALSE,
            data |-> [summary |-> <<"overview">>, suggestions |-> l]] :
           l \in SeqsUpTo(LocatedSuggestions, MaxStored) }

RefineReplies ==
    [kind : {"api_error", "garbage"}, fenced : {FALSE}, data : {<<>>}]
    \cup [kind : {"json_ok"}, fenced : {FALSE},
          data : { [suggested_text |-> <<"c", "a">>, reason |-> <<"r1">>],
                   [suggested_text |-> <<" ">>, reason |-> None],
                   [suggested_text |-> None, reason |-> None] }]

EditedTexts == { <<>>, <<" ">>, <<"c", "c">> }

\* the parsed_data of the stored job descriptions, by id: the fields the
\* scorer reads.  The stored resume is the row with id 1.
StoredJDs ==
    << [keywords |-> << <<"b", "c">> >>,
        requirements |-> <<>>, responsibilities |-> <<>>,
        required_skills |-> << <<"a", "b">>, <<"b", "c">> >>,
        preferred_skills |-> <<>>],
       [keywords |-> <<>>,
        requirements |-> << <<"a", "a", "a", "a">> >>, responsibilities |-> <<>>,
        required_skills |-> << <<"b", "c">> >>,
        preferred_skills |-> << <<"c", "a">> >>] >>

\* db.query(Session).filter(Session.resume_id == resume_id,
\* Session.jd_id == jd_id).first(): the id of the row, 0 when there is none
SessionFor(jd_id) ==
    LET found == {i \in 1..Len(db_sessions) : db_sessions[i].jd_id = jd_id} IN
    IF found = {} THEN 0 ELSE CHOOSE i \in found : \A k \in found : i <= k

\* Session(resume_id=..., jd_id=..., current_score=ats_score, ...); the row
\* is kept without current_semantic_fit, the collaborator's classification
NewSession(jd_id, ats_score) ==
    [resume_id |-> 1, jd_id |-> jd_id, current_score |-> ats_score]

\* "Create or update session" of get_fitting and score_resume
ScoredSessions(jd_id, ats_score) ==
    LET session == SessionFor(jd_id) IN
    IF session = 0 THEN Append(db_sessions, NewSession(jd_id, ats_score))
    ELSE [db_sessions EXCEPT ![session].current_score = ats_score]

\* the rows added for the suggestions the engine returned
NewRows(session_id, suggestions) ==
    [i \in 1..Len(suggestions) |->
        [session_id |-> session_id,
         section_type |-> suggestions[i].section_type,
         section_id |-> suggestions[i].section_id,
         original_text |-> suggestions[i].original_text,
         suggested_text |-> suggestions[i].suggested_text,
         reason |-> suggestions[i].reason,
         expected_score_delta |-> suggestions[i].expected_score_delta,
         jd_mapping |-> suggestions[i].jd_mapping,
         status |-> "pending",
         edited_text |-> None]]

Answer(code) ==
    /\ last' = code
    /\ UNCHANGED <<tables, db_resume, db_suggestions, ops, ext, gen>>

\* GET /api/fitting: the scores (the embedding call may raise), then the
\* session of the pair is created or rescored
get_fitting(jd_id, embed_ok) ==
    IF jd_id > Len(StoredJDs) THEN Answer(404)
    ELSE IF ~embed_ok THEN Answer(500)
    ELSE /\ db_sessions' =
               ScoredSessions(jd_id, combined_ats_score(db_resume, StoredJDs[jd_id]))
         /\ ops' = ops \cup {"fitting"}
         /\ last' = 200
         /\ UNCHANGED <<db_resume, db_suggestions, ext, gen, db_resume_rows, requests>>

\* POST /api/score: the same scores and the same create-or-update
score_resume(jd_id, embed_ok) ==
    IF jd_id > Len(StoredJDs) THEN Answer(404)
    ELSE IF ~embed_ok THEN Answer(500)
    ELSE /\ db_sessions' =
               ScoredSessions(jd_id, combined_ats_score(db_resume, StoredJDs[jd_id]))
         /\ ops' = ops \cup {"score"}
         /\ last' = 200
         /\ UNCHANGED <<db_resume, db_suggestions, ext, gen, db_resume_rows, requests>>

\* GET /api/suggestions: the session first (when the pair has none it is
\* scored, which calls the embedding collaborator and may raise, and
\* committed), then the engine, then one pending row per suggestion
get_suggestions(jd_id, reply, max_suggestions, embed_ok) ==
    LET suggestions == generate_suggestions(reply, max_suggestions).suggestions
        existing == SessionFor(jd_id)
    IN
    /\ Len(db_suggestions) + Len(suggestions) <= MaxStored
    /\ IF jd_id > Len(StoredJDs) THEN Answer(404)
       ELSE IF existing = 0 /\ ~embed_ok THEN Answer(500)
       ELSE LET sessions ==
                    IF existing # 0 THEN db_sessions
                    ELSE Append(db_sessions,
                                NewSession(jd_id,
                                           combined_ats_score(db_resume, StoredJDs[jd_id])))
                session_id == IF existing # 0 THEN existing ELSE Len(sessions)
            IN  /\ db_sessions' = sessions
                /\ last' = 200
                /\ IF suggestions = <<>>
                   THEN UNCHANGED <<db_resume, db_suggestions, ops, ext, gen,
                                    db_resume_rows, requests>>
                   ELSE /\ db_suggestions' =
                              db_suggestions \o NewRows(session_id, suggestions)
                        /\ ops' = ops \cup {"suggest"}
                        /\ UNCHANGED <<db_resume, ext, gen, db_resume_rows, requests>>

\* the session row of a suggestion with the score of resume_data against
\* the session's JD
Rescored(sessions, session_id, resume_data) ==
    [sessions EXCEPT ![session_id].current_score =
        combined_ats_score(resume_data, StoredJDs[sessions[session_id].jd_id])]

\* the accept handler without the test of the status
accept_suggestion_unguarded(suggestion_id, embed_ok) ==
    IF suggestion_id > Len(db_suggestions) THEN Answer(404)
    ELSE LET db_suggestion == db_suggestions[suggestion_id] IN
         IF ~embed_ok THEN Answer(500)
         ELSE LET resume_data ==
                      apply_suggestion_to_resume(db_resume, db_suggestion, None)
              IN  /\ db_resume' = resume_data
                  /\ db_suggestions' =
                        [db_suggestions EXCEPT ![suggestion_id].status = "accepted"]
                  /\ db_sessions' =
                        Rescored(db_sessions, db_suggestion.session_id, resume_data)
                  /\ ops' = ops \cup {"accept"}
                  /\ last' = 200
                  /\ UNCHANGED <<ext, gen, db_resume_rows, requests>>

\* POST /api/suggestions/{id}/accept.  The scores are recomputed before
\* db.commit(): when the embedding call raises nothing is committed.
accept_suggestion(suggestion_id, embed_ok) ==
    IF suggestion_id > Len(db_suggestions) THEN Answer(404)
    ELSE LET db_suggestion == db_suggestions[suggestion_id] IN
         IF db_suggestion.status # "pending" THEN Answer(400)
         ELSE IF ~embed_ok THEN Answer(500)
         ELSE LET resume_data ==
                      apply_suggestion_to_resume(db_resume, db_suggestion, None)
              IN  /\ db_resume' = resume_data
                  /\ db_suggestions' =
                        [db_suggestions EXCEPT ![suggestion_id].status = "accepted"]
                  /\ db_sessions' =
                        Rescored(db_sessions, db_suggestion.session_id, resume_data)
                  /\ ops' = ops \cup {"accept"}
                  /\ last' = 200
                  /\ UNCHANGED <<ext, gen, db_resume_rows, requests>>

\* POST /api/suggestions/{id}/reject
reject_suggestion(suggestion_id) ==
    IF suggestion_id > Len(db_suggestions) THEN Answer(404)
    ELSE /\ db_suggestions' =
               [db_suggestions EXCEPT ![suggestion_id].status = "rejected"]
         /\ ops' = ops \cup {"reject"}
         /\ last' = 200
         /\ UNCHANGED <<tables, db_resume, ext, gen>>

\* x or ''
OrEmpty(x) == IF Truthy(x) THEN x ELSE <<>>

\* original_suggestion = SuggestionSchema(...) of the refine endpoint: built
\* from the row, category and priority are not passed and stay None
SuggestionSchema(suggestion_id, db_suggestion) ==
    [id |-> suggestion_id,
     section_type |-> db_suggestion.section_type,
     section_id |-> OrEmpty(db_suggestion.section_id),
     original_text |-> OrEmpty(db_suggestion.original_text),
     suggested_text |-> OrEmpty(db_suggestion.suggested_text),
     reason |-> OrEmpty(db_suggestion.reason),
     expected_score_delta |-> db_suggestion.expected_score_delta,
     jd_mapping |-> OrEmpty(db_suggestion.jd_mapping),
     category |-> None,
     priority |-> None]

\* POST /api/suggestions/{id}/refine; gen keeps the call of the engine
endpoint_refine_suggestion(suggestion_id, reply) ==
    IF suggestion_id > Len(db_suggestions) THEN Answer(404)
    ELSE LET original_suggestion ==
                 SuggestionSchema(suggestion_id, db_suggestions[suggestion_id])
             refined == refine_suggestion(original_suggestion, reply)
             call == [kind |-> "refine", id |-> suggestion_id,
                      original |-> original_suggestion, reply |-> reply,
                      result |-> refined]
         IN  IF ~refined.produced
             THEN /\ last' = 500
                  /\ gen' = call
                  /\ UNCHANGED <<tables, db_resume, db_suggestions, ops, ext>>
             ELSE /\ db_suggestions' =
                        [db_suggestions EXCEPT
                            ![suggestion_id].suggested_text = refined.suggested_text,
                            ![suggestion_id].reason = refined.reason]
                  /\ ops' = ops \cup {"refine"}
                  /\ last' = 200
                  /\ gen' = call
                  /\ UNCHANGED <<tables, db_resume, ext>>

\* POST /api/suggestions/{id}/edit
edit_suggestion(suggestion_id, edited_text, embed_ok) ==
    IF suggestion_id > Len(db_suggestions) THEN Answer(404)
    ELSE IF db_suggestions[suggestion_id].status # "pending" THEN Answer(400)
    ELSE LET db_suggestion ==
                 [db_suggestions[suggestion_id] EXCEPT
                     !.suggested_text = edited_text,
                     !.status = "edited",
                     !.edited_text = edited_text]
             resume_data ==
                 apply_suggestion_to_resume(db_resume, db_suggestion, edited_text)
         IN  IF ~embed_ok THEN Answer(500)
             ELSE /\ db_resume' = resume_data
                  /\ db_suggestions' =
                        [db_suggestions EXCEPT ![suggestion_id] = db_suggestion]
                  /\ db_sessions' =
                        Rescored(db_sessions, db_suggestion.session_id, resume_data)
                  /\ ops' = ops \cup {"edit"}
                  /\ last' = 200
                  /\ UNCHANGED <<ext, gen, db_resume_rows, requests>>

\* the resumes a session can start from: what upload stored, the result of
\* extraction
UploadedDocs ==
    { doc \in ResumeDocs :
        /\ doc.name = Name1 /\ doc.email = Email1
        /\ doc.education = <<>> /\ doc.certs = <<>>
        /\ doc.skills = << <<"a", "b", ",", " ", "b", "c">> >>
        /\ doc.entries # << <<Header1, ShortBullet>> >> }

Init ==
    /\ db_resume \in { _parse_text(doc).data : doc \in UploadedDocs }
    /\ db_suggestions = <<>>
    /\ ops = {}
    /\ last = 0
    /\ ext = ExtIdle
    /\ gen = GenIdle
    /\ db_sessions = <<>>
    /\ db_resume_rows = <<>>
    /\ requests = <<>>

Next ==
    \/ \E reply \in EndpointReplies, n \in 1..MaxStored, embed_ok \in BOOLEAN :
          get_suggestions(1, reply, n, embed_ok)
    \/ \E id \in 1..MaxStored, embed_ok \in BOOLEAN : accept_suggestion(id, embed_ok)
    \/ \E id \in 1..MaxStored : reject_suggestion(id)
    \/ \E id \in 1..MaxStored, reply \in RefineReplies :
          endpoint_refine_suggestion(id, reply)
    \/ \E id \in 1..MaxStored, edited_text \in EditedTexts, embed_ok \in BOOLEAN :
          edit_suggestion(id, edited_text, embed_ok)

Spec == Init /\ [][Next]_vars

----------------------------------------------------------------------------
(* Properties of the suggestion endpoints (Spec)                           *)

\* row k is applied to the resume in this step: accepted, or edited
Applied(k) ==
    /\ k \in 1..Len(db_suggestions) /\ k <= Len(db_suggestions')
    /\ db_suggestions[k].status = "pending"
    /\ db_suggestions'[k].status \in {"accepted", "edited"}

\* section_id has the form experience_{i}_bullet_{j} with integers i and j
IsBulletLocator(section_id) ==
    LET parts == split(section_id, "_") IN
    /\ Len(parts) = 4
    /\ parts[1] = <<"experience">> /\ parts[3] = <<"bullet">>
    /\ IsInt(parts[2]) /\ IsInt(parts[4])

LocatorExp(section_id) == int(split(section_id, "_")[2])
LocatorBullet(section_id) == int(split(section_id, "_")[4])

InRange(resume, i, j) ==
    /\ i \in 0..(Len(resume.experience) - 1)
    /\ j \in 0..(Len(resume.experience[i + 1].bullets) - 1)

\* C1: applying a bullet suggestion whose section_id is
\* experience_{i}_bullet_{j} with i or j out of range leaves every field of
\* the resume as it was (and the request is answered, nothing is raised).
OutOfRangeBulletChangesNothing ==
    [][\A k \in 1..Len(db_suggestions) :
          (/\ Applied(k)
           /\ db_suggestions[k].section_type = "bullet"
           /\ IsBulletLocator(db_suggestions[k].section_id)
           /\ ~InRange(db_resume, LocatorExp(db_suggestions[k].section_id),
                       LocatorBullet(db_suggestions[k].section_id)))
          => (db_resume' = db_resume /\ last' = 200)]_vars

\* C2: a row is created pending, and a row whose status is accepted, rejected
\* or edited keeps that status whatever request follows.
TerminalStatusStays ==
    [][/\ \A k \in 1..Len(db_suggestions) :
             db_suggestions[k].status \in {"accepted", "rejected", "edited"}
             => (k <= Len(db_suggestions')
                 /\ db_suggestions'[k].status = db_suggestions[k].status)
       /\ \A k \in (Len(db_suggestions) + 1)..Len(db_suggestions') :
             db_suggestions'[k].status = "pending"]_vars

\* C3: applying a suggestion changes only what its section_id locates:
\* "summary" only the summary, the skills locator only appends to skills, an
\* in-range experience_{i}_bullet_{j} only the text of that bullet; personal
\* info, education and the formatting map never change.
OnlyLocatedFieldChanges ==
    [][\A k \in 1..Len(db_suggestions) :
          Applied(k) =>
            LET section_id == db_suggestions[k].section_id
                i == LocatorExp(section_id) + 1
                j == LocatorBullet(section_id) + 1
            IN  /\ db_resume'.personal_info = db_resume.personal_info
                /\ db_resume'.education = db_resume.education
                /\ db_resume'.formatting_map = db_resume.formatting_map
                /\ section_id = SummaryId
                   => db_resume' = [db_resume EXCEPT !.summary = db_resume'.summary]
                /\ section_id = SkillsId
                   => /\ db_resume' = [db_resume EXCEPT !.skills = db_resume'.skills]
                      /\ Len(db_resume'.skills) >= Len(db_resume.skills)
                      /\ Take(db_resume'.skills, Len(db_resume.skills)) = db_resume.skills
                /\ (IsBulletLocator(section_id) /\ InRange(db_resume, i - 1, j - 1))
                   => db_resume' =
                        [db_resume EXCEPT !.experience[i].bullets[j].text =
                            db_resume'.experience[i].bullets[j].text]]_vars

\* C6: no two entries of the skills of a stored resume are equal ignoring
\* case.
SkillsUniqueIgnoringCase ==
    \A i, k \in 1..Len(db_resume.skills) :
        i < k => lower(db_resume.skills[i]) # lower(db_resume.skills[k])

\* C7: as long as only suggestion, accept, reject and edit requests have
\* been served since extraction, every experience entry of the resume has a
\* bullet and every bullet text is non-empty after trimming.
BulletsNonEmpty ==
    ("refine" \notin ops) =>
        \A e \in 1..Len(db_resume.experience) :
            /\ Len(db_resume.experience[e].bullets) >= 1
            /\ \A b \in 1..Len(db_resume.experience[e].bullets) :
                  strip(db_resume.experience[e].bullets[b].text) # <<>>

\* C11: a refinement request either fails, and it does whenever the
\* collaborator call fails or its reply is empty or not JSON, in which case
\* the request is answered with an error and no row changes; or the engine
\* returns a suggestion that agrees with the original in section_type,
\* section_id, original_text, expected_score_delta, jd_mapping, category and
\* priority.
RefinementFailsOrKeepsFields ==
    [][(gen' # gen /\ gen'.kind = "refine") =>
          /\ CollaboratorFailed(gen'.reply) => ~gen'.result.produced
          /\ ~gen'.result.produced
             => (last' = 500 /\ db_suggestions' = db_suggestions)
          /\ gen'.result.produced
             => /\ last' = 200
                /\ gen'.result.section_type = gen'.original.section_type
                /\ gen'.result.section_id = gen'.original.section_id
                /\ gen'.result.original_text = gen'.original.original_text
                /\ gen'.result.expected_score_delta = gen'.original.expected_score_delta
                /\ gen'.result.jd_mapping = gen'.original.jd_mapping
                /\ gen'.result.category = gen'.original.category
                /\ gen'.result.priority = gen'.original.priority]_vars

\* a refinement succeeded with a new text, which is now the row's
\* suggested_text
RefinedTextStored ==
    /\ gen.kind = "refine" /\ gen.result.produced
    /\ gen.result.suggested_text # gen.original.suggested_text
    /\ gen.result.reason # gen.original.reason
    /\ db_suggestions[gen.id].suggested_text = gen.result.suggested_text
    /\ db_suggestions[gen.id].reason = gen.result.reason

-----------------------------------------------------------------------------
(* Runs of SuggestionEngine: the deterministic skill suggestions alone and *)
(* generate_suggestions, which appends them to the model-assisted ones.    *)
(* One call at a time, recorded in gen.                                    *)

MaxResumeSkills == 2
MaxRequiredSkills == 3
MaxPreferredSkills == 2

ResumeSkillPool == {<<"a", "b">>, <<" ", "B", "c">>, <<" ">>}
JDSkillPool == {<<"c">>, <<"A", "B", " ">>, <<"a", "b", "c", "a">>}
PreferredSkillPool == {<<"C", "a">>, <<"b">>}

run_suggest_skill_additions(resume_skills, required_skills, preferred_skills) ==
    /\ gen' = [kind |-> "skills", resume_skills |-> resume_skills,
               required_skills |-> required_skills,
               preferred_skills |-> preferred_skills,
               result |-> _suggest_skill_additions(resume_skills, required_skills,
                                                   preferred_skills)]
    /\ UNCHANGED <<tables, db_resume, db_suggestions, ops, last, ext>>

skill_additions_called ==
    /\ gen.kind = "idle"
    /\ \E resume_skills \in SeqsUpTo(ResumeSkillPool, MaxResumeSkills),
          required_skills \in SeqsUpTo(JDSkillPool, MaxRequiredSkills),
          preferred_skills \in SeqsUpTo(PreferredSkillPool, MaxPreferredSkills) :
          run_suggest_skill_additions(resume_skills, required_skills, preferred_skills)

\* the elements a reply to the batch prompt is made of
BatchRawSuggestions ==
    { RawSuggestion(<<"a", "b">>, <<"b", "c">>, None, 3),
      [RawSuggestion(<<" ", "A", "B">>, <<"A", "B", ",", " ", "c">>, None, 1)
          EXCEPT !.section_type = "skill",
                 !.section_id = <<"skills", "_", "section">>],
      RawSuggestion(LongOriginal, <<"c">>, None, 2),
      [RawSuggestion(<<"a", "c">>, <<"a">>, None, 3) EXCEPT !.is_dict = FALSE] }

BatchReplies ==
    FailedReplies
    \cup { [kind |-> "json_ok", fenced |-> FALSE,
            data |-> [summary |-> None, suggestions |-> l]] :
           l \in SeqsUpTo(BatchRawSuggestions, MaxReplyLen) }

\* the skills of the resumes and JDs generate_suggestions is called on
EngineResumeSkills == {<<>>, <<<<"a", "b">>>>, <<<<"a", "b">>, <<" ", "B", "c">>>>}
EngineRequiredSkills == {<<>>, <<<<"c">>>>, <<<<"c">>, <<"a", "b", "c", "a">>, <<"c">>>>}
EnginePreferredSkills == {<<>>, <<<<"C", "a">>>>}

run_suggestion_engine(reply, resume_skills, required_skills, preferred_skills, n) ==
    /\ gen' = [kind |-> "engine", reply |-> reply, resume_skills |-> resume_skills,
               required_skills |-> required_skills,
               preferred_skills |-> preferred_skills, max_suggestions |-> n,
               result |-> SuggestionEngine_generate_suggestions(
                              reply, resume_skills, required_skills,
                              preferred_skills, n)]
    /\ UNCHANGED <<tables, db_resume, db_suggestions, ops, last, ext>>

suggestion_engine_called ==
    /\ gen.kind = "idle"
    /\ \E reply \in BatchReplies, resume_skills \in EngineResumeSkills,
          required_skills \in EngineRequiredSkills,
          preferred_skills \in EnginePreferredSkills, n \in Counts :
          run_suggestion_engine(reply, resume_skills, required_skills,
                                preferred_skills, n)

\* the source of a posting: a title line and one bullet
RawJD == <<"A", "b", Newline, "~", " ", "a", "b", "c">>

\* the fields filled by the match-focused extraction, and left empty by the
\* rule-based one
MatchFocused(filled) ==
    [role_summary |-> IF filled THEN <<"a", "b", "c">> ELSE None,
     nice_to_have_requirements |-> IF filled THEN <<<<"c", "a">>>> ELSE <<>>,
     technical_skills |-> IF filled THEN <<<<"a">>, <<"b">>>> ELSE <<>>,
     soft_skills |-> IF filled THEN <<<<"c">>>> ELSE <<>>,
     keywords_to_include |-> IF filled THEN <<<<"b">>>> ELSE <<>>,
     preferred_skills |-> IF filled THEN <<<<"b", "a">>>> ELSE <<>>]

\* the JobDescriptions suggestions are generated for
PromptJDs ==
    { [role_title |-> <<"A", "b">>, company |-> company, raw_text |-> raw_text,
       must_have_requirements |-> must_have, requirements |-> requirements,
       preferred_qualifications |-> preferred_qualifications,
       required_skills |-> required_skills, keywords |-> keywords,
       responsibilities |-> responsibilities] @@ MatchFocused(filled) :
      company \in {None, <<"C">>}, raw_text \in {None, <<>>, RawJD},
      must_have \in {<<>>, <<<<"a", "b">>>>},
      requirements \in {<<>>, <<<<"a", "b", "c">>>>},
      preferred_qualifications \in {<<>>, <<<<"c", "b">>>>},
      required_skills \in {<<>>, <<<<"a">>, <<"b">>>>},
      keywords \in {<<>>, <<<<"c">>>>},
      responsibilities \in {<<>>, <<<<"b", "c", "a">>>>},
      filled \in BOOLEAN }

\* a failed call, an empty list and the lists of one suggestion
PromptReplies ==
    {r \in BatchReplies :
        \/ r.kind = "api_error" /\ ~r.fenced
        \/ r.kind = "json_ok" /\ Len(r.data.suggestions) <= 1}

\* SimpleSuggestionEngine.generate_suggestions, with the prompt it sends
run_simple_engine_on(jd, reply) ==
    /\ gen' = [kind |-> "prompted", engine |-> "simple", jd |-> jd,
               prompt |-> simple_prompt(jd, MaxCount), reply |-> reply,
               result |-> generate_suggestions(reply, MaxCount).suggestions]
    /\ UNCHANGED <<tables, db_resume, db_suggestions, ops, last, ext>>

\* SuggestionEngine._generate_batch_suggestions, with the prompt it sends
run_batch_engine_on(jd, reply) ==
    /\ gen' = [kind |-> "prompted", engine |-> "batch", jd |-> jd,
               prompt |-> batch_prompt(jd, MaxCount), reply |-> reply,
               result |-> _generate_batch_suggestions(reply)]
    /\ UNCHANGED <<tables, db_resume, db_suggestions, ops, last, ext>>

simple_engine_prompted ==
    /\ gen.kind = "idle"
    /\ \E jd \in PromptJDs, reply \in PromptReplies : run_simple_engine_on(jd, reply)

batch_engine_prompted ==
    /\ gen.kind = "idle"
    /\ \E jd \in PromptJDs, reply \in PromptReplies : run_batch_engine_on(jd, reply)

\* the skills the suggestions of _suggest_skill_additions are made for, in
\* the order of the suggestions
suggested_skills_of(resume_skills, required_skills, preferred_skills) ==
    IF resume_skills = <<>> THEN <<>>
    ELSE Take(MissingSkills(required_skills, resume_skills), RequiredCap)
         \o Take(MissingSkills(preferred_skills, resume_skills), PreferredCap)

\* resumes of one, two, nine and ten skills, and skills none of them has
TenSkills == [i \in 1..MaxDisplayed |-> <<LowerLetters[i + 3]>>]
AppliedSkillLists == { Take(TenSkills, n) : n \in {1, 2, MaxDisplayed - 1, MaxDisplayed} }
AppliedRequired == SeqsUpTo({<<"x", "y">>, <<"z">>}, 2)
AppliedPreferred == {<<>>, << <<"w">> >>}

\* the i-th suggestion of _suggest_skill_additions, accepted as it is:
\* apply_suggestion_to_resume on the resume it was generated for
run_apply_skill_suggestion(resume_skills, required_skills, preferred_skills, i) ==
    LET suggestions == _suggest_skill_additions(resume_skills, required_skills,
                                                preferred_skills)
        resume == [summary |-> None, experience |-> <<>>, skills |-> resume_skills]
    IN  /\ gen' = [kind |-> "applied", resume_skills |-> resume_skills,
                   skill |-> suggested_skills_of(resume_skills, required_skills,
                                                 preferred_skills)[i],
                   suggestion |-> suggestions[i],
                   result |-> apply_suggestion_to_resume(resume, suggestions[i], None)]
        /\ UNCHANGED <<tables, db_resume, db_suggestions, ops, last, ext>>

skill_suggestion_applied ==
    /\ gen.kind = "idle"
    /\ \E resume_skills \in AppliedSkillLists, required_skills \in AppliedRequired,
          preferred_skills \in AppliedPreferred :
          \E i \in 1..Len(_suggest_skill_additions(resume_skills, required_skills,
                                                   preferred_skills)) :
              run_apply_skill_suggestion(resume_skills, required_skills,
                                         preferred_skills, i)

InitEngine == InitExtract

NextEngine ==
    \/ skill_additions_called
    \/ skill_suggestion_applied
    \/ suggestion_engine_called
    \/ simple_engine_prompted
    \/ batch_engine_prompted
    \/ generation_returned

SpecEngine == InitEngine /\ [][NextEngine]_vars

-----------------------------------------------------------------------------
(* Properties of SuggestionEngine                                          *)

\* a JD skill is missing: no resume skill equals it, contains it or is
\* contained in it, ignoring case and surrounding blanks
IsMissing(jd_skill, resume_skills) ==
    \A k \in 1..Len(resume_skills) :
        LET j == strip(lower(jd_skill))
            r == strip(lower(resume_skills[k]))
        IN  j # r /\ ~Contains(j, r) /\ ~Contains(r, j)

NumMissing(jd_skills, resume_skills) ==
    Cardinality({i \in 1..Len(jd_skills) : IsMissing(jd_skills[i], resume_skills)})

NumWithDelta(suggestions, delta) ==
    Cardinality({i \in 1..Len(suggestions) : suggestions[i].expected_score_delta = delta})

\* C12: the deterministic skill mode emits exactly min(2, number of missing
\* required skills) suggestions of delta 5.0 and exactly min(1, number of
\* missing preferred skills) suggestions of delta 2.0, for every resume and JD
SkillModeEmitsCappedMissing ==
    gen.kind = "skills" =>
        /\ NumWithDelta(gen.result, 5)
             = Min(2, NumMissing(gen.required_skills, gen.resume_skills))
        /\ NumWithDelta(gen.result, 2)
             = Min(1, NumMissing(gen.preferred_skills, gen.resume_skills))

\* C19: no list returned by SuggestionEngine.generate_suggestions contains two
\* suggestions whose original_text agree in their first 100 characters after
\* lower-casing
EngineOriginalsDistinct ==
    gen.kind = "engine" =>
        \A i, j \in 1..Len(gen.result) :
            i # j => Take(lower(gen.result[i].original_text), 100)
                       # Take(lower(gen.result[j].original_text), 100)

\* C20: whenever the JobDescription has a non-empty raw_text, the prompt that
\* suggestion generation sends to the collaborator carries that raw_text
PromptCarriesRawText ==
    (gen.kind = "prompted" /\ Truthy(gen.jd.raw_text)) =>
        Contains(gen.jd.raw_text, gen.prompt.jd_text)

-----------------------------------------------------------------------------
(* SemanticMatcher.  A similarity is a float in [-1, 1]; here it is counted *)
(* in units of 1/SimUnit, so that the mean over the bounded number of      *)
(* sections is a whole number of units.                                    *)

SimUnit == 6000

\* the similarity n/1000
Thousandths(n) == n * (SimUnit \div 1000)

HighThreshold == 700
MediumThreshold == 500

\* best_match before any JD section scored above 0.0
NoSection == "None"

\* the inner loop over jd_embeddings: row[j] is the cosine similarity of the
\* resume section with the j-th JD section
RECURSIVE BestMatch(_, _, _, _, _)
BestMatch(row, jd_keys, j, max_sim, best_match) ==
    IF j > Len(row) THEN [score |-> max_sim, matched_with |-> best_match]
    ELSE IF row[j] > max_sim
         THEN BestMatch(row, jd_keys, j + 1, row[j], jd_keys[j])
         ELSE BestMatch(row, jd_keys, j + 1, max_sim, best_match)

RECURSIVE SumSeq(_)
SumSeq(xs) == IF xs = <<>> THEN 0 ELSE Head(xs) + SumSeq(Tail(xs))

\* float(np.mean(similarities)) if similarities else 0.0
Mean(similarities) ==
    IF similarities = <<>> THEN 0
    ELSE SumSeq(similarities) \div Len(similarities)

\* High from the threshold on only
FitLevel_above(overall_score) ==
    IF overall_score > Thousandths(HighThreshold) THEN "High"
    ELSE IF overall_score >= Thousandths(MediumThreshold) THEN "Medium"
    ELSE "Low"

\* the classification of the overall score
FitLevel(overall_score) ==
    IF overall_score >= Thousandths(HighThreshold) THEN "High"
    ELSE IF overall_score >= Thousandths(MediumThreshold) THEN "Medium"
    ELSE "Low"

\* SemanticMatcher.calculate_semantic_fit from the embeddings on: sims[i][j]
\* is cosine_similarity of the i-th resume section and the j-th JD section
calculate_semantic_fit(resume_keys, jd_keys, sims) ==
    LET section_scores ==
            [i \in 1..Len(resume_keys) |-> BestMatch(sims[i], jd_keys, 1, 0, NoSection)]
        similarities == [i \in 1..Len(resume_keys) |-> section_scores[i].score]
        overall_score == Mean(similarities)
    IN  [fit_level |-> FitLevel(overall_score), overall_score |-> overall_score,
         section_scores |-> section_scores]

-----------------------------------------------------------------------------
(* Runs of the scorer: one call at a time, recorded in gen                 *)

\* component scores a ScoreBreakdown can carry: 0, 20, 33 1/3, 35, 50, 100
\* and, since the schema does not validate the range, 120
ComponentScores ==
    {Points(0), Points(20), Points(100) \div 3, Points(35), Points(50),
     Points(100), Points(120)}

\* the lists a ScoreBreakdown carries besides its three scores
MatchedLists == {<<>>, <<<<"a", "b">>>>}

ScoreBreakdown(keyword_score, skill_score, completeness_score, matched) ==
    [keyword_score |-> keyword_score, skill_score |-> skill_score,
     completeness_score |-> completeness_score,
     matched_keywords |-> matched, missing_keywords |-> <<>>,
     matched_skills |-> matched, missing_skills |-> <<>>]

run_calculate_ats_score(breakdown) ==
    /\ gen' = [kind |-> "ats", breakdown |-> breakdown,
               result |-> calculate_ats_score(breakdown)]
    /\ UNCHANGED <<tables, db_resume, db_suggestions, ops, last, ext>>

ats_score_called ==
    /\ gen.kind = "idle"
    /\ \E k \in ComponentScores, s \in ComponentScores, c \in ComponentScores,
          matched \in MatchedLists :
          run_calculate_ats_score(ScoreBreakdown(k, s, c, matched))

ScoreResumeSkills == {<<"A", "b">>, <<"c">>}
ScoreRequiredSkills == {<<"A", "b">>, <<"a", "b">>, <<"c", "a">>}
ScorePreferredSkills == {<<"c">>, <<"B">>}
ScoreBullets == {<<>>, <<<<"C", "a", " ", "b">>>>}

run_calculate_skill_score(skills, bullets, required, preferred) ==
    /\ gen' = [kind |-> "skill_score", skills |-> skills, bullets |-> bullets,
               required |-> required, preferred |-> preferred,
               result |-> _calculate_skill_score(skills, bullets, required, preferred)]
    /\ UNCHANGED <<tables, db_resume, db_suggestions, ops, last, ext>>

skill_score_called ==
    /\ gen.kind = "idle"
    /\ \E skills \in SeqsUpTo(ScoreResumeSkills, MaxResumeSkills),
          bullets \in ScoreBullets,
          required \in SeqsUpTo(ScoreRequiredSkills, MaxRequiredSkills),
          preferred \in SeqsUpTo(ScorePreferredSkills, MaxPreferredSkills) :
          run_calculate_skill_score(skills, bullets, required, preferred)

MaxKeywords == 2

JDKeywords == {<<"A", "b">>, <<"a", "b">>, <<"c", "s">>}
JDRequirements ==
    {<<>>, <<<<"w", "i", "t", "h", " ", "a", "b", "c", "a", " ", "A", "b", "c", "s">>>>}
JDResponsibilities ==
    {<<>>, <<<<"t", "h", "a", "t", " ", " ", "b", "b", "b", "b">>, <<"a", "b", "c", "a", " ", "c", "c", "c">>>>}
ResumeTexts ==
    {<<>>, <<"a", "b", "c", " ", "a", "b">>, <<"b", "b", "b", "b", " ", "c", "s", " ", "a", "b", "c", "a">>}

run_calculate_keyword_score(resume_text, keywords, requirements, responsibilities) ==
    /\ gen' = [kind |-> "keyword_score", resume_text |-> resume_text,
               keywords |-> keywords, requirements |-> requirements,
               responsibilities |-> responsibilities,
               result |-> _calculate_keyword_score(resume_text, keywords,
                                                   requirements, responsibilities)]
    /\ UNCHANGED <<tables, db_resume, db_suggestions, ops, last, ext>>

keyword_score_called ==
    /\ gen.kind = "idle"
    /\ \E resume_text \in ResumeTexts, keywords \in SeqsUpTo(JDKeywords, MaxKeywords),
          requirements \in JDRequirements, responsibilities \in JDResponsibilities :
          run_calculate_keyword_score(resume_text, keywords, requirements,
                                      responsibilities)

MaxResumeSections == 2

\* the keys of _extract_resume_sections, in the order they are inserted
ResumeSectionKeys == <<"summary", "experience_0", "skills">>

\* the keys of _extract_jd_sections: role is always there
JDSectionKeys == {<<"role">>, <<"role", "requirements">>}

\* cosine similarities of embeddings the collaborator returned
Similarities ==
    {Thousandths(0 - 200), Thousandths(0), Thousandths(499), Thousandths(500),
     Thousandths(699), Thousandths(700)}

run_calculate_semantic_fit(resume_keys, jd_keys, sims) ==
    /\ gen' = [kind |-> "semantic", resume_keys |-> resume_keys, jd_keys |-> jd_keys,
               sims |-> sims,
               result |-> calculate_semantic_fit(resume_keys, jd_keys, sims)]
    /\ UNCHANGED <<tables, db_resume, db_suggestions, ops, last, ext>>

semantic_fit_called ==
    /\ gen.kind = "idle"
    /\ \E n \in 0..MaxResumeSections, jd_keys \in JDSectionKeys :
          \E sims \in [1..n -> [1..Len(jd_keys) -> Similarities]] :
              run_calculate_semantic_fit(Take(ResumeSectionKeys, n), jd_keys, sims)

\* the vector the embedding collaborator returns for one text
Embedding(text) == [of |-> text]

\* config.get_embeddings: one request, one vector per text in the order of
\* the texts
get_embeddings(texts) == [i \in 1..Len(texts) |-> Embedding(texts[i])]

Section(key, text) == [key |-> key, text |-> text]

\* f'experience_{i}' and f'education_{i}'
ExperienceKey(i) == <<"experience_0", "experience_1">>[i + 1]
EducationKey(i) == <<"education_0", "education_1">>[i + 1]

\* f"{exp.title} at {exp.company}. " + " ".join(bullet texts)
ExperienceText(exp) ==
    exp.title \o <<" ", "a", "t", " ">> \o exp.company \o <<".", " ">>
    \o JoinBy(BulletTexts(exp.bullets), <<" ">>)

\* f"{edu.degree} from {edu.institution}" and, with a field, f" in {edu.field}"
EducationText(edu) ==
    edu.degree \o <<" ", "f", "r", "o", "m", " ">> \o edu.institution
    \o (IF Truthy(edu.field) THEN <<" ", "i", "n", " ">> \o edu.field ELSE <<>>)

\* SemanticMatcher._extract_resume_sections: the dict as the sequence of its
\* items in insertion order
_extract_resume_sections(resume) ==
    (IF Truthy(resume.summary) THEN <<Section("summary", resume.summary)>> ELSE <<>>)
    \o [i \in 1..Len(resume.experience) |->
            Section(ExperienceKey(i - 1), ExperienceText(resume.experience[i]))]
    \o (IF resume.skills # <<>> THEN <<Section("skills", Join(resume.skills))>> ELSE <<>>)
    \o [i \in 1..Len(resume.education) |->
            Section(EducationKey(i - 1), EducationText(resume.education[i]))]

\* SemanticMatcher._extract_jd_sections: the role section is always there
_extract_jd_sections(jd) ==
    <<Section("role",
              jd.role_title
              \o (IF Truthy(jd.company) THEN <<" ", "a", "t", " ">> \o jd.company
                  ELSE <<>>))>>
    \o (IF jd.responsibilities # <<>>
        THEN <<Section("responsibilities", JoinBy(jd.responsibilities, <<" ">>))>>
        ELSE <<>>)
    \o (IF jd.requirements # <<>>
        THEN <<Section("requirements", JoinBy(jd.requirements, <<" ">>))>>
        ELSE <<>>)
    \o (IF jd.preferred_qualifications # <<>>
        THEN <<Section("preferred", JoinBy(jd.preferred_qualifications, <<" ">>))>>
        ELSE <<>>)
    \o (IF jd.required_skills # <<>>
        THEN <<Section("required_skills", Join(jd.required_skills))>>
        ELSE <<>>)
    \o (IF jd.preferred_skills # <<>>
        THEN <<Section("preferred_skills", Join(jd.preferred_skills))>>
        ELSE <<>>)

SectionKeys(sections) == [i \in 1..Len(sections) |-> sections[i].key]
SectionTexts(sections) == [i \in 1..Len(sections) |-> sections[i].text]

\* embeddings[a:b] with 0-based a and b
Slice0(xs, a, b) == [i \in 1..(Min(b, Len(xs)) - a) |-> xs[a + i]]

\* the embedding step of calculate_semantic_fit with the texts sent JD first
section_embeddings_jd_first(resume, jd) ==
    LET resume_sections == _extract_resume_sections(resume)
        jd_sections == _extract_jd_sections(jd)
        resume_texts == SectionTexts(resume_sections)
        jd_texts == SectionTexts(jd_sections)
        all_texts == jd_texts \o resume_texts
        embeddings == get_embeddings(all_texts)
    IN  [calls |-> <<all_texts>>,
         resume_keys |-> SectionKeys(resume_sections),
         jd_keys |-> SectionKeys(jd_sections),
         resume_embeddings |-> Slice0(embeddings, 0, Len(resume_texts)),
         jd_embeddings |-> Slice0(embeddings, Len(resume_texts), Len(embeddings))]

\* the embedding step of calculate_semantic_fit: the sections, the one
\* get_embeddings call on resume_texts + jd_texts, and the two slices of what
\* it returned
section_embeddings(resume, jd) ==
    LET resume_sections == _extract_resume_sections(resume)
        jd_sections == _extract_jd_sections(jd)
        resume_texts == SectionTexts(resume_sections)
        jd_texts == SectionTexts(jd_sections)
        all_texts == resume_texts \o jd_texts
        embeddings == get_embeddings(all_texts)
    IN  [calls |-> <<all_texts>>,
         resume_keys |-> SectionKeys(resume_sections),
         jd_keys |-> SectionKeys(jd_sections),
         resume_embeddings |-> Slice0(embeddings, 0, Len(resume_texts)),
         jd_embeddings |-> Slice0(embeddings, Len(resume_texts), Len(embeddings))]

\* resumes by the sections they yield: none, summary only, one experience
\* entry and skills, summary with two education entries
SemExperience ==
    [company |-> <<"c">>, title |-> <<"t">>, location |-> None,
     start_date |-> None, end_date |-> None,
     bullets |-> <<BulletPoint(<<"b", "1">>), BulletPoint(<<"b", "2">>)>>]

SemEducation(field) ==
    [institution |-> <<"u">>, degree |-> <<"d">>, field |-> field,
     location |-> None, graduation_date |-> None]

SemResume(summary, experience, education, skills) ==
    [personal_info |-> [name |-> None, email |-> None, phone |-> None,
                        location |-> None, linkedin |-> None],
     summary |-> summary, experience |-> experience, education |-> education,
     skills |-> skills, formatting_map |-> None]

SemResumes ==
    { SemResume(None, <<>>, <<>>, <<>>),
      SemResume(<<"s">>, <<>>, <<>>, <<>>),
      SemResume(None, <<SemExperience>>, <<>>, << <<"x">>, <<"y">> >>),
      SemResume(<<"s">>, <<>>, <<SemEducation(None), SemEducation(<<"f">>)>>, <<>>) }

SemJD(company, responsibilities, requirements, required_skills) ==
    [role_title |-> <<"r">>, company |-> company,
     responsibilities |-> responsibilities, requirements |-> requirements,
     preferred_qualifications |-> <<>>, required_skills |-> required_skills,
     preferred_skills |-> <<>>]

SemJDs ==
    { SemJD(None, <<>>, <<>>, <<>>),
      SemJD(<<"k">>, <<>>, << <<"q", "1">>, <<"q", "2">> >>, <<>>),
      SemJD(None, << <<"p">> >>, <<>>, << <<"x">>, <<"z">> >>) }

\* the similarities the section runs draw from
SectionSimilarities == {Thousandths(0), Thousandths(700)}

\* calculate_semantic_fit on a resume and a JD; sims[i][j] is the cosine
\* similarity of resume_embeddings[i] and jd_embeddings[j]
run_semantic_fit_sections(resume, jd, sims) ==
    LET e == section_embeddings(resume, jd) IN
    /\ gen' = [kind |-> "embedding", resume |-> resume, jd |-> jd, sims |-> sims,
               calls |-> e.calls,
               resume_keys |-> e.resume_keys, jd_keys |-> e.jd_keys,
               resume_embeddings |-> e.resume_embeddings,
               jd_embeddings |-> e.jd_embeddings,
               result |-> calculate_semantic_fit(e.resume_keys, e.jd_keys, sims)]
    /\ UNCHANGED <<tables, db_resume, db_suggestions, ops, last, ext>>

semantic_fit_sections_called ==
    /\ gen.kind = "idle"
    /\ \E resume \in SemResumes, jd \in SemJDs :
          LET e == section_embeddings(resume, jd) IN
          \E sims \in [1..Len(e.resume_embeddings) ->
                          [1..Len(e.jd_embeddings) -> SectionSimilarities]] :
              run_semantic_fit_sections(resume, jd, sims)

InitScore == InitExtract

NextScore ==
    \/ ats_score_called
    \/ skill_score_called
    \/ keyword_score_called
    \/ semantic_fit_called
    \/ semantic_fit_sections_called
    \/ generation_returned

SpecScore == InitScore /\ [][NextScore]_vars

-----------------------------------------------------------------------------
(* Properties of the scorer                                                *)

InScoreRange(x) == 0 <= x /\ x <= Points(100)

\* C13: calculate_ats_score returns exactly 0.4 * keyword_score
\* + 0.4 * skill_score + 0.2 * completeness_score, whatever else the
\* breakdown carries, and the result lies in [0, 100] whenever the three
\* components do
AtsScoreIsWeightedSum ==
    gen.kind = "ats" =>
        LET b == gen.breakdown IN
        /\ 10 * gen.result
             = 4 * b.keyword_score + 4 * b.skill_score + 2 * b.completeness_score
        /\ (InScoreRange(b.keyword_score) /\ InScoreRange(b.skill_score)
            /\ InScoreRange(b.completeness_score)) => InScoreRange(gen.result)

\* C13 witness: a breakdown with three different components in range, and
\* with non-empty lists, has been scored
AtsScoreOfMixedBreakdown ==
    /\ gen.kind = "ats"
    /\ gen.breakdown.keyword_score = Points(35)
    /\ gen.breakdown.skill_score = Points(100)
    /\ gen.breakdown.completeness_score = Points(50)
    /\ gen.breakdown.matched_keywords # <<>>
    /\ gen.result = Points(64)

\* the skills the resume counts as having: the declared ones, lower-cased,
\* and every JD skill whose lower-cased name occurs inside some bullet
CountedSkills(skills, bullets, required, preferred) ==
    {lower(skills[i]) : i \in 1..Len(skills)}
    \cup {lower(required[i]) : i \in
            {j \in 1..Len(required) :
                \E b \in 1..Len(bullets) : Contains(lower(required[j]), lower(bullets[b]))}}
    \cup {lower(preferred[i]) : i \in
            {j \in 1..Len(preferred) :
                \E b \in 1..Len(bullets) : Contains(lower(preferred[j]), lower(bullets[b]))}}

\* C14: with R the counted skills, the skill score is
\* 70*|R n required|/|required| + 30*|R n preferred|/|preferred| when required
\* is non-empty (the preferred term 0 when preferred is empty),
\* 100*|R n preferred|/|preferred| when only preferred is non-empty, and 100
\* when both are empty
SkillScoreIsWeightedRatio ==
    gen.kind = "skill_score" =>
        LET R == CountedSkills(gen.skills, gen.bullets, gen.required, gen.preferred)
            req == {lower(gen.required[i]) : i \in 1..Len(gen.required)}
            pref == {lower(gen.preferred[i]) : i \in 1..Len(gen.preferred)}
            nr == Cardinality(req)
            np == Cardinality(pref)
            mr == Cardinality(R \cap req)
            mp == Cardinality(R \cap pref)
            score == gen.result.score
        IN  /\ (nr > 0 /\ np > 0)
               => score * nr * np = Points(70) * mr * np + Points(30) * mp * nr
            /\ (nr > 0 /\ np = 0) => score * nr = Points(70) * mr
            /\ (nr = 0 /\ np > 0) => score * np = Points(100) * mp
            /\ (nr = 0 /\ np = 0) => score = Points(100)

\* C14 witness: skills [Ab, c] against required [Ab, ca], no preferred skills
\* and no bullets, scored 35.0
SkillScoreScenario35 ==
    /\ gen.kind = "skill_score"
    /\ gen.skills = <<<<"A", "b">>, <<"c">>>>
    /\ gen.bullets = <<>>
    /\ gen.required = <<<<"A", "b">>, <<"c", "a">>>>
    /\ gen.preferred = <<>>
    /\ gen.result.score = Points(35)

\* the keyword set K: the lower-cased JD keywords and the words longer than
\* three characters, outside the stop-word list, of the requirements and
\* responsibilities
KeywordSet(keywords, requirements, responsibilities) ==
    LET texts == requirements \o responsibilities IN
    {lower(keywords[i]) : i \in 1..Len(keywords)}
    \cup {w \in UNION {{words(lower(texts[i]))[j] :
                           j \in 1..Len(words(lower(texts[i])))} : i \in 1..Len(texts)} :
            Len(w) > 3 /\ w \notin _get_stop_words}

\* a keyword is matched in a text that holds it or, when it ends in s, its
\* singular
MatchedIn(k, text) ==
    \/ Contains(k, text)
    \/ /\ Len(k) > 1
       /\ k[Len(k)] = "s"
       /\ Contains(SubSeq(k, 1, Len(k) - 1), text)

\* C15: with K the keyword set, the keyword score is 100 * (number of members
\* of K matched in the resume text) / |K|, and 100 when K is empty
KeywordScoreIsMatchedRatio ==
    gen.kind = "keyword_score" =>
        LET K == KeywordSet(gen.keywords, gen.requirements, gen.responsibilities)
            matched == {k \in K : MatchedIn(k, gen.resume_text)}
        IN  /\ K = {} => gen.result.score = Points(100)
            /\ K # {} => gen.result.score * Cardinality(K)
                           = Points(100) * Cardinality(matched)

\* C15 witness: a keyword set of four, of which stop words and short words
\* are no members, half matched
KeywordScoreHalf ==
    /\ gen.kind = "keyword_score"
    /\ gen.requirements # <<>>
    /\ gen.responsibilities # <<>>
    /\ Cardinality(gen.result.matched_keywords) = 2
    /\ Cardinality(gen.result.missing_keywords) = 2
    /\ gen.result.score = Points(50)

\* C16: the overall similarity s is classified High exactly when s >= 0.7,
\* Medium exactly when 0.5 <= s < 0.7 and Low exactly when s < 0.5
FitLevelExactlyThresholded ==
    gen.kind = "semantic" =>
        LET s == gen.result.overall_score
            level == gen.result.fit_level
        IN  /\ level = "High" <=> s >= Thousandths(700)
            /\ level = "Medium" <=> (Thousandths(500) <= s /\ s < Thousandths(700))
            /\ level = "Low" <=> s < Thousandths(500)

\* C16 witness: the mean of a section at 0.699 and a section at 0.7, just
\* below the threshold, is classified Medium
FitMediumJustBelowHigh ==
    /\ gen.kind = "semantic"
    /\ Len(gen.resume_keys) = 2
    /\ gen.result.overall_score > Thousandths(699)
    /\ gen.result.overall_score < Thousandths(700)
    /\ gen.result.fit_level = "Medium"

RowValues(row) == {row[j] : j \in 1..Len(row)}

IsMaxOf(x, S) == x \in S /\ \A y \in S : y <= x

\* C17: for every resume section the reported score is the maximum cosine
\* similarity between that section and any JD section, matched_with names a
\* JD section that attains it, and the overall score is the arithmetic mean
\* of these maxima
SectionScoreIsMaxSimilarity ==
    gen.kind = "semantic" =>
        LET n == Len(gen.resume_keys)
            sc == gen.result.section_scores
        IN  /\ \A i \in 1..n :
                  /\ IsMaxOf(sc[i].score, RowValues(gen.sims[i]))
                  /\ \E j \in 1..Len(gen.jd_keys) :
                        /\ gen.jd_keys[j] = sc[i].matched_with
                        /\ gen.sims[i][j] = sc[i].score
            /\ n > 0 => gen.result.overall_score * n
                          = SumSeq([i \in 1..n |-> sc[i].score])

-----------------------------------------------------------------------------
(* Properties of the aggressive fallback (SpecExtract)                     *)

\* ignoring case, one text contains the other and the shorter one's length
\* is at least 80% of the longer one's
NearIdentical(x, y) ==
    LET a == lower(x)
        b == lower(y)
    IN  /\ Contains(a, b) \/ Contains(b, a)
        /\ Min(Len(a), Len(b)) * 100 >= 80 * Max(Len(a), Len(b))

\* C18: the deduplication of the aggressive fallback returns a list in which
\* no two bullets are near-identical
NoNearIdenticalBullets ==
    ext.kind = "bullets" =>
        \A i, j \in 1..Len(ext.result) :
            i # j => ~NearIdentical(ext.result[i], ext.result[j])

-----------------------------------------------------------------------------
(* Properties of the model-assisted resume strategy (SpecExtract)          *)

\* C21: when the collaborator returns a JSON reply that conforms to the
\* resume schema, the extraction of a non-blank document returns the
\* ResumeData built from that reply, whatever the rule-based strategy would
\* have made of the document.
ConformingReplyIsReturned ==
    (/\ ext.kind = "resume"
     /\ ~ext.doc.blank
     /\ ext.reply.kind = "json_ok")
    => /\ ext.result.ok
       /\ ext.result.data = ResumeFromJson(ext.reply.data)

-----------------------------------------------------------------------------
(* Properties of the embedding step of the semantic matcher (SpecScore)    *)

\* C22: calculate_semantic_fit calls the embedding collaborator exactly
\* once, with a non-empty list that is the resume section texts followed by
\* the JD section texts, and takes the k-th returned vector as the vector of
\* the k-th resume section, and the vector after the last resume section's
\* as the first JD section's, and so on; every resume section gets a score.
OneEmbeddingCallInSectionOrder ==
    gen.kind = "embedding" =>
        LET rs == _extract_resume_sections(gen.resume)
            js == _extract_jd_sections(gen.jd)
            n == Len(rs)
            m == Len(js)
        IN  /\ Len(gen.calls) = 1
            /\ gen.calls[1] # <<>>
            /\ Len(gen.calls[1]) = n + m
            /\ \A i \in 1..n : gen.calls[1][i] = rs[i].text
            /\ \A j \in 1..m : gen.calls[1][n + j] = js[j].text
            /\ Len(gen.resume_embeddings) = n /\ Len(gen.jd_embeddings) = m
            /\ \A i \in 1..n :
                  /\ gen.resume_embeddings[i] = Embedding(rs[i].text)
                  /\ gen.resume_keys[i] = rs[i].key
            /\ \A j \in 1..m :
                  /\ gen.jd_embeddings[j] = Embedding(js[j].text)
                  /\ gen.jd_keys[j] = js[j].key
            /\ Len(gen.result.section_scores) = n

\* C22 witness: a resume that yields no sections has been matched against a
\* JD with a company and requirements: the one call carried the two JD texts
SectionlessResumeEmbedded ==
    /\ gen.kind = "embedding"
    /\ _extract_resume_sections(gen.resume) = <<>>
    /\ gen.calls = << << <<"r", " ", "a", "t", " ", "k">>,
                         <<"q", "1", " ", "q", "2">> >> >>
    /\ gen.jd_keys = <<"role", "requirements">>
    /\ gen.result.overall_score = 0

-----------------------------------------------------------------------------
(* Properties of the line-unwrapping step (SpecExtract)                    *)

\* the units of a text after unwrapping
UnitsOf(lines) == JoinLines(lines, <<>>, <<>>)

\* C23: when the last line of a text is non-blank and does not start a new
\* logical unit, and the line before it is non-blank (so that a unit is in
\* hand), the line is appended with one space to that unit unless the unit
\* ends in terminal punctuation, in which case the line becomes a unit of its
\* own; whatever kind of unit is in hand, a bullet included.
ContinuationJoinsUnlessTerminated ==
    ext.kind = "joined" =>
        LET lines == split(ext.text, Newline)
            k == Len(lines)
        IN  (/\ k >= 2
             /\ strip(lines[k]) # <<>>
             /\ ~is_new_item(strip(lines[k]))
             /\ strip(lines[k - 1]) # <<>>)
            => LET before == UnitsOf(SubSeq(lines, 1, k - 1))
                   current == before[Len(before)]
                   units == split(ext.result, Newline)
               IN  IF EndsWithTerminal(current)
                   THEN units = Append(before, strip(lines[k]))
                   ELSE units = [before EXCEPT ![Len(before)] =
                                    current \o <<" ">> \o strip(lines[k])]

-----------------------------------------------------------------------------
(* Sessions: one stored resume matched against two stored job              *)
(* descriptions, so that two sessions share the resume (SpecSession)       *)

\* the stored resume the sessions start from
SessionResume == SemResume(None, <<SemExperience>>, <<>>, << <<"a", "b">> >>)

\* what the collaborator suggests: a new summary, or two skills to add
SummarySuggestion == Located("summary", SummaryId, <<"a">>, <<"a", "b", "c">>)
TwoSkillsSuggestion == Located("skill", SkillsId, <<"a", "b">>, <<"b", "c", ",", " ", "A", "B">>)

SessionReplies ==
    { [kind |-> "api_error", fenced |-> FALSE, data |-> <<>>],
      [kind |-> "json_ok", fenced |-> FALSE,
       data |-> [summary |-> <<"overview">>, suggestions |-> <<SummarySuggestion>>]],
      [kind |-> "json_ok", fenced |-> FALSE,
       data |-> [summary |-> <<"overview">>, suggestions |-> <<TwoSkillsSuggestion>>]] }

SessionRefineReplies ==
    { [kind |-> "api_error", fenced |-> FALSE, data |-> <<>>],
      [kind |-> "json_ok", fenced |-> FALSE,
       data |-> [suggested_text |-> <<"c", "a">>, reason |-> <<"r1">>]] }

SessionEditedTexts == { <<"c", "c">> }

InitSession ==
    /\ db_resume = SessionResume
    /\ db_suggestions = <<>>
    /\ ops = {}
    /\ last = 0
    /\ ext = ExtIdle
    /\ gen = GenIdle
    /\ db_sessions = <<>>
    /\ db_resume_rows = <<>>
    /\ requests = <<>>

fitting_requested ==
    \E jd_id \in 1..Len(StoredJDs), embed_ok \in BOOLEAN : get_fitting(jd_id, embed_ok)

score_requested ==
    \E jd_id \in 1..Len(StoredJDs), embed_ok \in BOOLEAN : score_resume(jd_id, embed_ok)

suggestions_requested ==
    \E jd_id \in 1..Len(StoredJDs), reply \in SessionReplies, embed_ok \in BOOLEAN :
        get_suggestions(jd_id, reply, MaxStored, embed_ok)

accept_requested ==
    \E id \in 1..MaxStored, embed_ok \in BOOLEAN : accept_suggestion(id, embed_ok)

edit_requested ==
    \E id \in 1..MaxStored, edited_text \in SessionEditedTexts, embed_ok \in BOOLEAN :
        edit_suggestion(id, edited_text, embed_ok)

reject_requested == \E id \in 1..MaxStored : reject_suggestion(id)

refine_requested ==
    \E id \in 1..MaxStored, reply \in SessionRefineReplies :
        endpoint_refine_suggestion(id, reply)

NextSession ==
    \/ fitting_requested
    \/ score_requested
    \/ suggestions_requested
    \/ accept_requested
    \/ edit_requested
    \/ reject_requested
    \/ refine_requested

SpecSession == InitSession /\ [][NextSession]_vars

-----------------------------------------------------------------------------
(* Properties of the sessions (SpecSession)                                *)

\* C25: every session's current_score is the combined ATS score of the
\* stored resume against the session's JD, sessions that share the resume
\* with the session in which a suggestion was accepted included.
SessionScoresCurrent ==
    \A s \in 1..Len(db_sessions) :
        db_sessions[s].current_score
          = combined_ats_score(db_resume, StoredJDs[db_sessions[s].jd_id])

\* the text export_resume takes from an accepted or edited row
ExportText(row) ==
    IF row.status = "edited" THEN row.edited_text ELSE row.suggested_text

IsApplied(row) == row.status \in {"accepted", "edited"}

\* C26: a suggestion is written into the resume at most once.  An accept or
\* an edit of a row that is not pending is answered 400 and changes neither
\* the resume nor the rows nor the session scores; the resume and the scores
\* of sessions that exist change only in a step that takes a pending row to
\* accepted or edited; and a row that has left pending never is pending
\* again.
AppliedAtMostOnce ==
    [][/\ \A id \in 1..Len(db_suggestions) :
             db_suggestions[id].status # "pending" =>
                 /\ \A embed_ok \in BOOLEAN :
                       accept_suggestion(id, embed_ok) =>
                           /\ last' = 400
                           /\ UNCHANGED <<db_resume, db_suggestions, db_sessions>>
                 /\ \A edited_text \in SessionEditedTexts, embed_ok \in BOOLEAN :
                       edit_suggestion(id, edited_text, embed_ok) =>
                           /\ last' = 400
                           /\ UNCHANGED <<db_resume, db_suggestions, db_sessions>>
                 /\ db_suggestions'[id].status # "pending"
       /\ db_resume' # db_resume =>
             \E id \in 1..Len(db_suggestions) :
                 /\ db_suggestions[id].status = "pending"
                 /\ IsApplied(db_suggestions'[id])
       /\ \A id \in 1..Len(db_suggestions) :
             (IsApplied(db_suggestions'[id]) /\ ~IsApplied(db_suggestions[id]))
                => db_suggestions[id].status = "pending"
      ]_vars

\* C26 witness: the two-skills suggestion was accepted and written, its text
\* was refined afterwards, and a further accept or edit of it has just been
\* refused: the resume holds the skills of the text accepted first
SecondAcceptRefused ==
    /\ last = 400
    /\ Len(db_suggestions) = 1
    /\ db_suggestions[1].status = "accepted"
    /\ db_suggestions[1].section_type = "skill"
    /\ db_suggestions[1].suggested_text = <<"c", "a">>
    /\ db_resume.skills = << <<"a", "b">>, <<"b", "c">>, <<"A", "B">> >>

\* C27: while a row is accepted or edited, the text stored with it
\* (edited_text when edited, suggested_text when accepted), which is the text
\* the export takes, stays the text that was written into the resume.
AppliedTextKept ==
    [][\A id \in 1..Len(db_suggestions) :
          (IsApplied(db_suggestions[id]) /\ IsApplied(db_suggestions'[id]))
             => ExportText(db_suggestions'[id]) = ExportText(db_suggestions[id])
      ]_vars

-----------------------------------------------------------------------------
(* Two accept / edit requests on one stored resume, each handled with its  *)
(* own database session: the handler loads the suggestion row and          *)
(* parsed_data, works on its copy, and commits (SpecRace)                  *)

MaxWorkers == 2

Idle == [pc |-> "idle"]

\* the two suggestions of session 1, as get_suggestions stored them
PendingPair ==
    generate_suggestions(
        [kind |-> "json_ok", fenced |-> FALSE,
         data |-> [summary |-> <<"overview">>,
                   suggestions |-> <<SummarySuggestion, TwoSkillsSuggestion>>]],
        2).suggestions

InitRace ==
    /\ db_resume = SessionResume
    /\ db_sessions = <<NewSession(1, combined_ats_score(SessionResume, StoredJDs[1]))>>
    /\ db_suggestions = NewRows(1, PendingPair)
    /\ ops = {"suggest"}
    /\ last = 200
    /\ ext = ExtIdle
    /\ gen = GenIdle
    /\ db_resume_rows = <<>>
    /\ requests = [w \in 1..MaxWorkers |-> Idle]

\* accept_suggestion up to resume_data = ResumeData(**db_resume.parsed_data)
accept_read(w, suggestion_id) ==
    /\ requests[w].pc = "idle"
    /\ IF suggestion_id > Len(db_suggestions) THEN Answer(404)
       ELSE IF db_suggestions[suggestion_id].status # "pending" THEN Answer(400)
       ELSE /\ requests' =
                  [requests EXCEPT ![w] =
                      [pc |-> "read", kind |-> "accept",
                       suggestion_id |-> suggestion_id, edited_text |-> None,
                       db_suggestion |-> db_suggestions[suggestion_id],
                       resume_data |-> db_resume]]
            /\ UNCHANGED <<db_resume, db_suggestions, ops, last, ext, gen,
                           db_sessions, db_resume_rows>>

\* edit_suggestion up to resume_data = ResumeData(**db_resume.parsed_data)
edit_read(w, suggestion_id, edited_text) ==
    /\ requests[w].pc = "idle"
    /\ IF suggestion_id > Len(db_suggestions) THEN Answer(404)
       ELSE IF db_suggestions[suggestion_id].status # "pending" THEN Answer(400)
       ELSE /\ requests' =
                  [requests EXCEPT ![w] =
                      [pc |-> "read", kind |-> "edit",
                       suggestion_id |-> suggestion_id, edited_text |-> edited_text,
                       db_suggestion |-> db_suggestions[suggestion_id],
                       resume_data |-> db_resume]]
            /\ UNCHANGED <<db_resume, db_suggestions, ops, last, ext, gen,
                           db_sessions, db_resume_rows>>

\* the rest of either handler: the suggestion is applied to the handler's
\* resume_data, the scores are computed (the embedding call may raise), and
\* db.commit() writes parsed_data, the changed columns of the suggestion
\* row and the session's score
request_commit(w, embed_ok) ==
    /\ requests[w].pc = "read"
    /\ LET r == requests[w]
           db_suggestion ==
               IF r.kind = "edit"
               THEN [r.db_suggestion EXCEPT !.suggested_text = r.edited_text,
                                            !.status = "edited",
                                            !.edited_text = r.edited_text]
               ELSE r.db_suggestion
           resume_data ==
               apply_suggestion_to_resume(r.resume_data, db_suggestion, r.edited_text)
       IN  IF ~embed_ok
           THEN /\ last' = 500
                /\ requests' = [requests EXCEPT ![w] = Idle]
                /\ UNCHANGED <<db_resume, db_suggestions, ops, ext, gen,
                               db_sessions, db_resume_rows>>
           ELSE /\ db_resume' = resume_data
                /\ db_suggestions' =
                      [db_suggestions EXCEPT ![r.suggestion_id] =
                          IF r.kind = "edit"
                          THEN [@ EXCEPT !.suggested_text = r.edited_text,
                                         !.status = "edited",
                                         !.edited_text = r.edited_text]
                          ELSE [@ EXCEPT !.status = "accepted"]]
                /\ db_sessions' = Rescored(db_sessions, r.db_suggestion.session_id, resume_data)
                /\ ops' = ops \cup {r.kind}
                /\ last' = 200
                /\ requests' = [requests EXCEPT ![w] = Idle]
                /\ UNCHANGED <<ext, gen, db_resume_rows>>

accept_started ==
    \E w \in 1..MaxWorkers, id \in 1..Len(PendingPair) : accept_read(w, id)

edit_started ==
    \E w \in 1..MaxWorkers, id \in 1..Len(PendingPair), edited_text \in SessionEditedTexts :
        edit_read(w, id, edited_text)

request_committed ==
    \E w \in 1..MaxWorkers, embed_ok \in BOOLEAN : request_commit(w, embed_ok)

NextRace ==
    \/ accept_started
    \/ edit_started
    \/ request_committed

SpecRace == InitRace /\ [][NextRace]_vars

\* the text of an applied row is in the stored resume: it is the summary, or
\* each of its comma-separated skills is among the skills
Present(row) ==
    IF row.section_type = "summary" THEN db_resume.summary = ExportText(row)
    ELSE LET skills_to_add == SkillsToAdd(ExportText(row)) IN
         \A k \in 1..Len(skills_to_add) :
             skills_to_add[k] = <<>> \/ InList(skills_to_add[k], db_resume.skills)

----------------------------------------------------------------------------
(* app.py: the resume table (upload, default resume)                       *)

\* the number of stored resumes the runs go up to
MaxResumes == 4

\* the files a client uploads: the documents of the sessions and an empty one
UploadFiles == UploadedDocs \cup { doc \in ResumeDocs : doc.blank }

\* UPDATE resumes SET is_default = 0
ClearDefaults(rows) == [i \in 1..Len(rows) |-> [rows[i] EXCEPT !.is_default = 0]]

\* the row upload_resume adds
DBResume(parsed_data) == [is_default |-> 1, parsed_data |-> parsed_data]

\* upload_resume without the UPDATE that clears the default flags
upload_resume_keeping_defaults(extension_ok, doc, reply) ==
    /\ Len(db_resume_rows) < MaxResumes
    /\ LET result == _parse_pdf(doc, reply) IN
       IF ~extension_ok \/ ~result.ok
       THEN /\ last' = 400
            /\ UNCHANGED db_resume_rows
       ELSE /\ db_resume_rows' = Append(db_resume_rows, DBResume(result.data))
            /\ last' = 200
    /\ UNCHANGED <<db_resume, db_suggestions, ops, ext, gen, db_sessions, requests>>

\* POST /api/upload-resume
upload_resume(extension_ok, doc, reply) ==
    /\ Len(db_resume_rows) < MaxResumes
    /\ LET result == _parse_pdf(doc, reply) IN
       IF ~extension_ok \/ ~result.ok
       THEN /\ last' = 400
            /\ UNCHANGED db_resume_rows
       ELSE /\ db_resume_rows' =
                 Append(ClearDefaults(db_resume_rows), DBResume(result.data))
            /\ last' = 200
    /\ UNCHANGED <<db_resume, db_suggestions, ops, ext, gen, db_sessions, requests>>

\* the positions of the rows marked default
DefaultRows(rows) == { i \in 1..Len(rows) : rows[i].is_default = 1 }

\* query(DBResume).filter(is_default == 1).first(): a position, 0 when none
FirstDefault(rows) ==
    IF DefaultRows(rows) = {} THEN 0
    ELSE CHOOSE i \in DefaultRows(rows) : \A j \in DefaultRows(rows) : i <= j

\* GET /api/resume/default
get_default_resume ==
    /\ last' = IF FirstDefault(db_resume_rows) = 0 THEN 404 ELSE 200
    /\ UNCHANGED <<db_resume, db_suggestions, ops, ext, gen, tables>>

\* DELETE /api/resume/default
delete_default_resume ==
    /\ LET at == FirstDefault(db_resume_rows) IN
       db_resume_rows' =
           IF at = 0 THEN db_resume_rows
           ELSE SubSeq(db_resume_rows, 1, at - 1)
                \o SubSeq(db_resume_rows, at + 1, Len(db_resume_rows))
    /\ last' = 200
    /\ UNCHANGED <<db_resume, db_suggestions, ops, ext, gen, db_sessions, requests>>

InitUpload ==
    /\ db_resume = NoResume
    /\ db_suggestions = <<>>
    /\ ops = {}
    /\ last = 0
    /\ ext = ExtIdle
    /\ gen = GenIdle
    /\ db_sessions = <<>>
    /\ db_resume_rows = <<>>
    /\ requests = <<>>

resume_uploaded ==
    \E extension_ok \in BOOLEAN, doc \in UploadFiles, reply \in ResumeReplies :
        upload_resume(extension_ok, doc, reply)

NextUpload ==
    \/ resume_uploaded
    \/ get_default_resume
    \/ delete_default_resume

SpecUpload == InitUpload /\ [][NextUpload]_vars

----------------------------------------------------------------------------
(* The deterministic skill suggestion, applied                             *)

\* C29: applying the suggestion the skill mode produced for the missing
\* skill S leaves the resume's skills equal to the previous skills followed
\* by S, however many skills the resume had.
AppliedSkillSuggestionAppendsSkill ==
    gen.kind = "applied" => gen.result.skills = Append(gen.resume_skills, gen.skill)

----------------------------------------------------------------------------
(* regeneration.resume_builder.ResumeBuilder._apply_changes_to_data, the   *)
(* applicator of the export, next to apply_suggestion_to_resume, the       *)
(* applicator of accept.  Section ids are written character by character.  *)

SummarySectionId ==
    <<"s", "u", "m", "m", "a", "r", "y", "_", "s", "e", "c", "t", "i", "o", "n">>
SkillsSectionId ==
    <<"s", "k", "i", "l", "l", "s", "_", "s", "e", "c", "t", "i", "o", "n">>
ExperiencePrefix == <<"e", "x", "p", "e", "r", "i", "e", "n", "c", "e", "_">>
BulletWord == <<"b", "u", "l", "l", "e", "t">>

\* f"experience_{exp_idx}_bullet_{bullet_idx}"
BulletSectionId(exp_idx, bullet_idx) ==
    ExperiencePrefix \o Str(exp_idx) \o <<"_">> \o BulletWord \o <<"_">> \o Str(bullet_idx)

\* one item of accepted_changes applied to the copy
ApplyChange(modified, section_id, new_text) ==
    IF section_id = <<"s", "u", "m", "m", "a", "r", "y">>
    THEN [modified EXCEPT !.summary = new_text]
    ELSE IF StartsWith(section_id, ExperiencePrefix)
    THEN LET parts == split(section_id, "_") IN
         IF Len(parts) >= 4 /\ parts[3] = BulletWord
         THEN ApplyBullet(modified, section_id, new_text)
         ELSE modified
    ELSE IF StartsWith(section_id, <<"s", "k", "i", "l", "l">>)
    THEN IF InList(new_text, modified.skills) THEN modified
         ELSE [modified EXCEPT !.skills = AppendSkills(@, SkillsToAdd(new_text))]
    ELSE modified

\* _apply_changes_to_data(resume_data, accepted_changes): accepted_changes is
\* the list of the (section_id, new_text) items of the dict, in its order; the
\* changes go to a deep copy, the argument stays as it was
RECURSIVE _apply_changes_to_data(_, _)
_apply_changes_to_data(resume_data, accepted_changes) ==
    IF accepted_changes = <<>> THEN resume_data
    ELSE _apply_changes_to_data(
             ApplyChange(resume_data, Head(accepted_changes)[1], Head(accepted_changes)[2]),
             Tail(accepted_changes))

\* the resumes the two applicators are run on
ChangedExperience ==
    [title |-> <<"t">>, bullets |-> << [text |-> <<"a", "b">>], [text |-> <<"c">>] >>]

ChangedResumes ==
    [summary : {None, <<"o", "l", "d">>},
     experience : { <<ChangedExperience>> },
     skills : { <<>>, << <<"a">> >>, << <<"a">>, <<"b">> >>, << <<"c">>, <<"a", ",", " ", "c">> >> }]

ChangedTexts ==
    { <<"a">>, <<"a", ",", " ", "c">>, <<"n", "e", "w">>, <<"b", ",", "d">> }

\* what the generators produce: the skill suggestions (skills_section), the
\* summary suggestions (summary_section) and the bullet suggestions of the
\* bullets the resume has
ProducedSuggestions(resume) ==
    [section_type : {"skill"}, section_id : {SkillsSectionId}, suggested_text : ChangedTexts]
    \cup [section_type : {"summary"}, section_id : {SummarySectionId},
          suggested_text : ChangedTexts]
    \cup { [section_type |-> "bullet", section_id |-> BulletSectionId(e - 1, b - 1),
            suggested_text |-> t] :
           e \in 1..Len(resume.experience), b \in 1..Len(ChangedExperience.bullets),
           t \in ChangedTexts }

\* the summary, the skills and the bullet texts of a resume
Content(resume) ==
    [summary |-> resume.summary, skills |-> resume.skills,
     bullets |-> [e \in 1..Len(resume.experience) |->
                     [b \in 1..Len(resume.experience[e].bullets) |->
                         resume.experience[e].bullets[b].text]]]

run_applicators(resume, suggestion) ==
    /\ gen' = [kind |-> "changed", resume |-> resume, suggestion |-> suggestion,
               accepted |-> apply_suggestion_to_resume(resume, suggestion, None),
               exported |-> _apply_changes_to_data(
                                resume, << <<suggestion.section_id,
                                             suggestion.suggested_text>> >>),
               given |-> resume]
    /\ UNCHANGED <<tables, db_resume, db_suggestions, ops, last, ext>>

applicators_called ==
    /\ gen.kind = "idle"
    /\ \E resume \in ChangedResumes :
          \E suggestion \in ProducedSuggestions(resume) : run_applicators(resume, suggestion)

InitApply == InitExtract

NextApply ==
    \/ applicators_called
    \/ generation_returned

SpecApply == InitApply /\ [][NextApply]_vars

\* C30: for every resume and every suggestion the generators can produce,
\* the applicator of accept and the applicator of the export leave the same
\* summary, skills and bullet texts, and the export's applicator leaves the
\* resume it was given as it was.
ApplicatorsAgree ==
    gen.kind = "changed" =>
        /\ Content(gen.accepted) = Content(gen.exported)
        /\ gen.given = gen.resume

====
